---- MODULE Spec2Model ----
(***************************************************************************)
(* Agent orchestration of the character content generator: the in-memory   *)
(* session store, the confirmation gate, the background generation job     *)
(* and task polling (app/agent/core.py, app/routers/agent.py), with the    *)
(* token ledger of app/services/tokens.py.                                  *)
(*                                                                         *)
(* The server is one asyncio event loop: a coroutine runs without          *)
(* interruption from one await to the next.  Every action below is one     *)
(* such segment of a request handler or of a background job.               *)
(***************************************************************************)
EXTENDS Integers, Sequences, FiniteSets, TLC

NoneV == "None"
\* an empty pending_generation / pending_edit field (None)
NoPending == [pid |-> 0]

\* ---- bounds of the model ------------------------------------------------
MaxCalls == 3
MaxTasks == 2
MaxSessionObjects == 2

\* ---- program constants ---------------------------------------------------
HistoryCap == 20
MaxBaseImages == 3
ImageCost == 1
VideoCost == 2

SessionIds == {"s1"}
Slots == {1, 2}
CharacterIds == {"c1"}
ClockReadings == {"t1", "t2"}
\* (reference_image_path, reference_image_mode) pairs a chat request carries
RefInputs ==
    {<<NoneV, NoneV>>, <<"ref", "face_swap">>, <<"ref", "pose_background">>,
     <<"ref", "clothing_pose">>, <<"ref", "custom">>}

VARIABLES
    sessions,        \* Agent.sessions: session id -> session object (0: no entry)
    heap,            \* the ConversationSession objects ever constructed
    tasks,           \* the GenerationTask objects ever constructed
    jobs,            \* the _run_generation_task coroutine of each task
    reqs,            \* request handlers in flight (their locals and position)
    response,        \* the response most recently returned to a client
    ncalls,          \* requests accepted so far
    npending,        \* pending generations / edits constructed so far
    approved_base,   \* approved base images of the character (images table)
    unapproved_base, \* completed, not yet approved base images
    image_status,    \* status of the image record carrying each task id
    provider_log,    \* calls made to the image / video providers
    token_balance,   \* User.token_balance
    transactions,    \* TokenTransaction rows
    probe            \* the call followed in the specifications of single functions

vars == <<sessions, heap, tasks, jobs, reqs, response, ncalls, npending, approved_base,
          unapproved_base, image_status, provider_log, token_balance, transactions, probe>>

dbvars == <<approved_base, unapproved_base, image_status>>
ledger == <<token_balance, transactions>>

\* ---- session objects -----------------------------------------------------

\* variant: add_message that keeps the first HistoryCap messages
add_message_keeps_oldest(msgs, role) ==
    LET m == Append(msgs, role)
    IN  IF Len(m) > HistoryCap THEN SubSeq(m, 1, HistoryCap) ELSE m

\* ConversationSession.add_message: append, keep the last HistoryCap messages
add_message(msgs, role) ==
    LET m == Append(msgs, role)
    IN  IF Len(m) > HistoryCap THEN SubSeq(m, Len(m) - HistoryCap + 1, Len(m)) ELSE m

\* ConversationSession(id, character_id) with its dataclass defaults
NewSession(sid, cid) ==
    [id |-> sid, character_id |-> cid, messages |-> <<>>,
     pending_generation |-> NoPending, pending_edit |-> NoPending, state |-> "IDLE",
     fetched_instagram_images |-> <<>>, active_tasks |-> {}]

\* Agent._get_or_create_session: the heap and the session map afterwards
SessionExists(sid) == sessions[sid] # 0

CanGetOrCreate(sid) == SessionExists(sid) \/ Len(heap) < MaxSessionObjects

HeapAfterGet(sid, cid) ==
    IF ~SessionExists(sid) THEN Append(heap, NewSession(sid, cid))
    ELSE IF cid # NoneV THEN [heap EXCEPT ![sessions[sid]].character_id = cid]
    ELSE heap

SessionsAfterGet(sid) ==
    IF ~SessionExists(sid) THEN [sessions EXCEPT ![sid] = Len(heap) + 1] ELSE sessions

ObjAfterGet(sid) == IF ~SessionExists(sid) THEN Len(heap) + 1 ELSE sessions[sid]

\* ---- request handlers ----------------------------------------------------

\* a handler that is not running: no locals
IdleReq == [op |-> NoneV, pc |-> "idle", sid |-> NoneV, obj |-> 0, cid |-> NoneV,
            ref |-> NoneV, mode |-> NoneV,
            intent |-> [intent |-> NoneV, content_type |-> NoneV,
                        needs_confirmation |-> FALSE],
            pend |-> NoPending]

\* AgentChatResponse (pending: pid of the pending item it carries, task: task id)
ChatResponse(op, sid, msg, st, pending, task) ==
    [op |-> op, session_id |-> sid, message |-> msg, state |-> st,
     pending |-> pending, active_task |-> task]

\* a request is accepted by the first free handler
CanStart(r) ==
    /\ reqs[r].pc = "idle"
    /\ ncalls < MaxCalls
    /\ \A q \in Slots : reqs[q].pc = "idle" => ~(q < r)

\* no single call is followed
NoProbe == [fn |-> NoneV]

\* the agent, the tables and the ledger after start-up
InitSystem ==
    /\ sessions = [s \in SessionIds |-> 0]
    /\ heap = <<>>
    /\ tasks = <<>>
    /\ jobs = <<>>
    /\ reqs = [r \in Slots |-> IdleReq]
    /\ response = [op |-> NoneV]
    /\ ncalls = 0
    /\ npending = 0
    /\ approved_base \in {0, 1}
    /\ unapproved_base = 0
    /\ image_status = <<>>
    /\ provider_log = {}
    /\ token_balance = 2
    /\ transactions = <<>>

Init == InitSystem /\ probe = NoProbe

\* ---- process_message -----------------------------------------------------

\* what _analyze_intent hands back: the reasoning provider's structured result
\* or the local classifier's
IntentResults ==
    [intent : {"generate_image", "generate_video"}, needs_confirmation : BOOLEAN,
     refusal : {FALSE}, content_type : {"base", "content_post"}, has_url : {FALSE}]
    \cup [intent : {"general_chat"}, needs_confirmation : {FALSE},
          refusal : BOOLEAN, content_type : {NoneV}, has_url : {FALSE}]
    \cup [intent : {"create_character", "list_characters", "fetch_instagram",
                    "update_character"}, needs_confirmation : {FALSE},
          refusal : {FALSE}, content_type : {NoneV}, has_url : {FALSE}]
    \cup [intent : {"add_base_image"}, needs_confirmation : {FALSE},
          refusal : {FALSE}, content_type : {NoneV}, has_url : BOOLEAN]

\* the canned intent of the quick path (reference image with a non-custom mode)
QuickIntent ==
    [intent |-> "generate_image", needs_confirmation |-> TRUE, refusal |-> FALSE,
     content_type |-> "content_post", has_url |-> FALSE]

IsQuickPath(ref, mode) == ref # NoneV /\ mode # NoneV /\ mode # "custom"

\* PendingGeneration(skill, params, optimized_prompt); pid tells the instances apart
PendingGen(pid, skill, content_type, ref, mode, prompt) ==
    [pid |-> pid, skill |-> skill, content_type |-> content_type,
     reference_image_path |-> ref, reference_image_mode |-> mode,
     optimized_prompt |-> prompt]

\* the handler in slot r returns resp to its client
Return(r, resp) ==
    /\ reqs' = [reqs EXCEPT ![r] = IdleReq]
    /\ response' = resp

\* variant: the fetched images stay in the session after one was used
PMStartKeepsFetched(r, sid, cid, refin) ==
    /\ CanStart(r)
    /\ CanGetOrCreate(sid)
    /\ LET o == ObjAfterGet(sid)
           h1 == HeapAfterGet(sid, cid)
           useIg == refin[1] = NoneV /\ h1[o].fetched_instagram_images # <<>>
           ref2 == IF useIg THEN h1[o].fetched_instagram_images[1] ELSE refin[1]
           mode2 == IF useIg /\ refin[2] = NoneV THEN "face_swap" ELSE refin[2]
       IN  /\ heap' = [h1 EXCEPT ![o].messages = add_message(@, "user"),
                                 ![o].state = "UNDERSTANDING"]
           /\ sessions' = SessionsAfterGet(sid)
           /\ reqs' = [reqs EXCEPT ![r] =
                          [IdleReq EXCEPT !.op = "process_message", !.pc = "ctx",
                                          !.sid = sid, !.obj = o, !.cid = cid,
                                          !.ref = ref2, !.mode = mode2]]
    /\ ncalls' = ncalls + 1
    /\ UNCHANGED <<tasks, jobs, response, npending, dbvars, provider_log, ledger, probe>>

\* process_message up to its first await (_build_context)
PMStart(r, sid, cid, refin) ==
    /\ CanStart(r)
    /\ CanGetOrCreate(sid)
    /\ LET o == ObjAfterGet(sid)
           h1 == HeapAfterGet(sid, cid)
           useIg == refin[1] = NoneV /\ h1[o].fetched_instagram_images # <<>>
           ref2 == IF useIg THEN h1[o].fetched_instagram_images[1] ELSE refin[1]
           mode2 == IF useIg /\ refin[2] = NoneV THEN "face_swap" ELSE refin[2]
       IN  /\ heap' = [h1 EXCEPT ![o].messages = add_message(@, "user"),
                                 ![o].state = "UNDERSTANDING",
                                 ![o].fetched_instagram_images =
                                     IF useIg THEN <<>> ELSE @]
           /\ sessions' = SessionsAfterGet(sid)
           /\ reqs' = [reqs EXCEPT ![r] =
                          [IdleReq EXCEPT !.op = "process_message", !.pc = "ctx",
                                          !.sid = sid, !.obj = o, !.cid = cid,
                                          !.ref = ref2, !.mode = mode2]]
    /\ ncalls' = ncalls + 1
    /\ UNCHANGED <<tasks, jobs, response, npending, dbvars, provider_log, ledger, probe>>

\* the intent branches of process_message that run without a further await
Dispatch(r, res) ==
    LET o == reqs[r].obj
        sid == reqs[r].sid
        cid == reqs[r].cid
        say(st) == [heap EXCEPT ![o].messages = add_message(@, "assistant"),
                                ![o].state = st]
        sayOnly == [heap EXCEPT ![o].messages = add_message(@, "assistant")]
        reply(msg, st) == ChatResponse("process_message", sid, msg, st, 0, 0)
        await(pc) == /\ reqs' = [reqs EXCEPT ![r].pc = pc,
                                             ![r].intent =
                                                 [intent |-> res.intent,
                                                  content_type |-> res.content_type,
                                                  needs_confirmation |->
                                                      res.needs_confirmation]]
                     /\ UNCHANGED <<heap, response, npending>>
    IN  CASE res.intent = "general_chat" /\ res.refusal /\ cid # NoneV ->
               /\ heap' = [heap EXCEPT
                              ![o].pending_generation =
                                  PendingGen(npending + 1, "image_generator",
                                             "content_post", reqs[r].ref, reqs[r].mode, "p"),
                              ![o].state = "AWAITING_CONFIRMATION",
                              ![o].messages = add_message(@, "assistant")]
               /\ npending' = npending + 1
               /\ Return(r, ChatResponse("process_message", sid, "refusal",
                                         "AWAITING_CONFIRMATION", npending + 1, 0))
          [] res.intent = "general_chat" /\ ~(res.refusal /\ cid # NoneV) ->
               /\ heap' = say("IDLE")
               /\ Return(r, reply("chat", "IDLE"))
               /\ UNCHANGED npending
          [] res.intent \in {"generate_image", "generate_video"} /\ cid = NoneV ->
               /\ heap' = sayOnly
               /\ Return(r, reply("select_character", "IDLE"))
               /\ UNCHANGED npending
          [] res.intent \in {"generate_image", "generate_video"} /\ cid # NoneV ->
               await("opt")
          [] res.intent \in {"create_character", "list_characters", "fetch_instagram"} ->
               await("skill")
          [] res.intent = "add_base_image" /\ cid = NoneV ->
               /\ heap' = sayOnly
               /\ Return(r, reply("select_character_for_base", "IDLE"))
               /\ UNCHANGED npending
          [] res.intent = "add_base_image" /\ cid # NoneV /\ ~res.has_url ->
               /\ heap' = sayOnly
               /\ Return(r, reply("provide_url", "IDLE"))
               /\ UNCHANGED npending
          [] res.intent = "add_base_image" /\ cid # NoneV /\ res.has_url ->
               await("count")
          [] OTHER ->
               /\ heap' = say("IDLE")
               /\ Return(r, reply("default", "IDLE"))
               /\ UNCHANGED npending

\* variant: every call asks the reasoning provider
PMContextAlwaysAnalyze(r) ==
    /\ reqs[r].op = "process_message" /\ reqs[r].pc = "ctx"
    /\ heap' = [heap EXCEPT ![reqs[r].obj].state = "PLANNING"]
    /\ reqs' = [reqs EXCEPT ![r].pc = "intent"]
    /\ UNCHANGED <<response, npending>>
    /\ UNCHANGED <<sessions, tasks, jobs, ncalls, dbvars, provider_log, ledger, probe>>

\* _build_context has returned: quick path, or PLANNING and await _analyze_intent
PMContext(r) ==
    /\ reqs[r].op = "process_message" /\ reqs[r].pc = "ctx"
    /\ IF IsQuickPath(reqs[r].ref, reqs[r].mode)
       THEN Dispatch(r, QuickIntent)
       ELSE /\ heap' = [heap EXCEPT ![reqs[r].obj].state = "PLANNING"]
            /\ reqs' = [reqs EXCEPT ![r].pc = "intent"]
            /\ UNCHANGED <<response, npending>>
    /\ UNCHANGED <<sessions, tasks, jobs, ncalls, dbvars, provider_log, ledger, probe>>

\* variant: a general_chat reply also drops the pending generation
PMIntentDropsPending(r, res) ==
    /\ reqs[r].op = "process_message" /\ reqs[r].pc = "intent"
    /\ IF res.intent = "general_chat" /\ ~res.refusal
       THEN /\ heap' = [heap EXCEPT ![reqs[r].obj].messages = add_message(@, "assistant"),
                                    ![reqs[r].obj].state = "IDLE",
                                    ![reqs[r].obj].pending_generation = NoPending]
            /\ Return(r, ChatResponse("process_message", reqs[r].sid, "chat", "IDLE", 0, 0))
            /\ UNCHANGED npending
       ELSE Dispatch(r, res)
    /\ UNCHANGED <<sessions, tasks, jobs, ncalls, dbvars, provider_log, ledger, probe>>

\* variant: a generation intent is planned without looking at character_id
PMIntentAnyCharacter(r, res) ==
    /\ reqs[r].op = "process_message" /\ reqs[r].pc = "intent"
    /\ IF res.intent \in {"generate_image", "generate_video"} /\ reqs[r].cid = NoneV
       THEN /\ reqs' = [reqs EXCEPT ![r].pc = "opt",
                                    ![r].intent =
                                        [intent |-> res.intent,
                                         content_type |-> res.content_type,
                                         needs_confirmation |-> res.needs_confirmation]]
            /\ UNCHANGED <<heap, response, npending>>
       ELSE Dispatch(r, res)
    /\ UNCHANGED <<sessions, tasks, jobs, ncalls, dbvars, provider_log, ledger, probe>>

\* _analyze_intent has returned res
PMIntent(r, res) ==
    /\ reqs[r].op = "process_message" /\ reqs[r].pc = "intent"
    /\ Dispatch(r, res)
    /\ UNCHANGED <<sessions, tasks, jobs, ncalls, dbvars, provider_log, ledger, probe>>

\* variant: a result with needs_confirmation = FALSE is generated at once
PMOptimizedEager(r) ==
    /\ reqs[r].op = "process_message" /\ reqs[r].pc = "opt"
    /\ ~reqs[r].intent.needs_confirmation
    /\ provider_log' = provider_log \cup
           {[kind |-> "image_content", task |-> 0, pid |-> npending + 1]}
    /\ heap' = [heap EXCEPT ![reqs[r].obj].state = "IDLE",
                            ![reqs[r].obj].messages = add_message(@, "assistant")]
    /\ Return(r, ChatResponse("process_message", reqs[r].sid, "generated", "IDLE", 0, 0))
    /\ npending' = npending + 1
    /\ UNCHANGED <<sessions, tasks, jobs, ncalls, dbvars, ledger, probe>>

\* prompt_optimizer.optimize has returned: store the pending generation
PMOptimized(r) ==
    /\ reqs[r].op = "process_message" /\ reqs[r].pc = "opt"
    /\ LET o == reqs[r].obj
           res == reqs[r].intent
           pg == PendingGen(npending + 1,
                            IF res.intent = "generate_image" THEN "image_generator"
                                                             ELSE "video_generator",
                            res.content_type, reqs[r].ref, reqs[r].mode, "p")
       IN  /\ heap' = [heap EXCEPT ![o].pending_generation = pg,
                                   ![o].state = "AWAITING_CONFIRMATION",
                                   ![o].messages = add_message(@, "assistant")]
           /\ Return(r, ChatResponse("process_message", reqs[r].sid, "confirm_card",
                                     "AWAITING_CONFIRMATION", pg.pid, 0))
    /\ npending' = npending + 1
    /\ UNCHANGED <<sessions, tasks, jobs, ncalls, dbvars, provider_log, ledger, probe>>

\* the awaited skill of create_character / list_characters / fetch_instagram
\* has returned (ok: it succeeded)
PMSkillDone(r, ok) ==
    /\ reqs[r].op = "process_message" /\ reqs[r].pc = "skill"
    /\ LET o == reqs[r].obj
           it == reqs[r].intent.intent
       IN  /\ heap' = [heap EXCEPT
                          ![o].messages = add_message(@, "assistant"),
                          ![o].state = "IDLE",
                          ![o].fetched_instagram_images =
                              IF it = "fetch_instagram" /\ ok
                              THEN <<"ig1", "ig2">> ELSE @]
           /\ Return(r, ChatResponse("process_message", reqs[r].sid,
                                     IF ok THEN it ELSE "skill_error", "IDLE", 0, 0))
    /\ UNCHANGED <<sessions, tasks, jobs, ncalls, npending, dbvars, provider_log, ledger, probe>>

\* CharacterSkill._add_base_image: the count query has returned
PMBaseCount(r) ==
    /\ reqs[r].op = "process_message" /\ reqs[r].pc = "count"
    /\ IF approved_base >= MaxBaseImages
       THEN /\ heap' = [heap EXCEPT
                           ![reqs[r].obj].messages = add_message(@, "assistant"),
                           ![reqs[r].obj].state = "IDLE"]
            /\ Return(r, ChatResponse("process_message", reqs[r].sid, "skill_error",
                                      "IDLE", 0, 0))
       ELSE /\ reqs' = [reqs EXCEPT ![r].pc = "commit"]
            /\ UNCHANGED <<heap, response>>
    /\ UNCHANGED <<sessions, tasks, jobs, ncalls, npending, dbvars, provider_log, ledger, probe>>

\* CharacterSkill._add_base_image: the approved base image is committed
PMBaseCommit(r) ==
    /\ reqs[r].op = "process_message" /\ reqs[r].pc = "commit"
    /\ approved_base' = approved_base + 1
    /\ heap' = [heap EXCEPT ![reqs[r].obj].messages = add_message(@, "assistant"),
                            ![reqs[r].obj].state = "IDLE"]
    /\ Return(r, ChatResponse("process_message", reqs[r].sid, "add_base_image",
                              "IDLE", 0, 0))
    /\ UNCHANGED <<sessions, tasks, jobs, ncalls, npending, unapproved_base,
                   image_status, provider_log, ledger, probe>>

\* ---- cancel / clear ------------------------------------------------------

\* variant: cancel_pending that empties the generation slot only
cancel_pending_generation_only(sid) ==
    /\ ncalls < MaxCalls
    /\ ncalls' = ncalls + 1
    /\ heap' = IF SessionExists(sid)
               THEN [heap EXCEPT ![sessions[sid]].pending_generation = NoPending,
                                 ![sessions[sid]].state = "IDLE"]
               ELSE heap
    /\ response' = [op |-> "cancel", session_id |-> sid]
    /\ UNCHANGED <<sessions, tasks, jobs, reqs, npending, dbvars, provider_log, ledger, probe>>

\* Agent.cancel_pending (POST /agent/cancel)
cancel_pending(sid) ==
    /\ ncalls < MaxCalls
    /\ ncalls' = ncalls + 1
    /\ heap' = IF SessionExists(sid)
               THEN [heap EXCEPT ![sessions[sid]].pending_generation = NoPending,
                                 ![sessions[sid]].pending_edit = NoPending,
                                 ![sessions[sid]].state = "IDLE"]
               ELSE heap
    /\ response' = [op |-> "cancel", session_id |-> sid]
    /\ UNCHANGED <<sessions, tasks, jobs, reqs, npending, dbvars, provider_log, ledger, probe>>

\* Agent.clear_session (POST /agent/clear)
clear_session(sid) ==
    /\ ncalls < MaxCalls
    /\ ncalls' = ncalls + 1
    /\ sessions' = [sessions EXCEPT ![sid] = 0]
    /\ response' = [op |-> "clear", session_id |-> sid]
    /\ UNCHANGED <<heap, tasks, jobs, reqs, npending, dbvars, provider_log, ledger, probe>>

\* ---- confirm_generation --------------------------------------------------

\* a pending generation sent along with a confirm request (AgentConfirmRequest)
ClientPendings ==
    {[skill |-> "image_generator", content_type |-> "content_post",
      reference_image_path |-> NoneV, reference_image_mode |-> NoneV,
      optimized_prompt |-> "p"]}

\* the cost table of the token ledger
TOKEN_COSTS(operation) ==
    CASE operation = "image_generation" -> ImageCost
      [] operation = "video_generation" -> VideoCost
      [] OTHER -> 1

\* variant: a supplied pending generation is adopted without a character id
CGStartAdoptsWithoutCharacter(r, sid, cid, modifications, client_pg) ==
    /\ CanStart(r)
    /\ ncalls' = ncalls + 1
    /\ LET adopt == ~SessionExists(sid) /\ client_pg # NoPending
           reply(msg) == ChatResponse("confirm_generation", sid, msg, "IDLE", 0, 0)
       IN  IF ~SessionExists(sid) /\ ~adopt
           THEN /\ Return(r, reply("Session not found"))
                /\ UNCHANGED <<sessions, heap, npending>>
           ELSE /\ adopt => Len(heap) < MaxSessionObjects
                /\ LET o == ObjAfterGet(sid)
                       h1 == IF adopt
                             THEN [HeapAfterGet(sid, cid) EXCEPT
                                      ![o].pending_generation =
                                          PendingGen(npending + 1, client_pg.skill,
                                                     client_pg.content_type,
                                                     client_pg.reference_image_path,
                                                     client_pg.reference_image_mode,
                                                     client_pg.optimized_prompt)]
                             ELSE heap
                       h2 == IF cid # NoneV /\ h1[o].character_id = NoneV
                             THEN [h1 EXCEPT ![o].character_id = cid] ELSE h1
                       pending == h2[o].pending_generation
                   IN  /\ sessions' = IF adopt THEN SessionsAfterGet(sid) ELSE sessions
                       /\ npending' = IF adopt THEN npending + 1 ELSE npending
                       /\ IF pending = NoPending
                          THEN /\ heap' = h2
                               /\ Return(r, reply("No pending generation task"))
                          ELSE IF modifications
                          THEN \* process_message is called without its required
                               \* reference_image_mode argument: TypeError, HTTP 500
                               /\ heap' = [h2 EXCEPT ![o].messages = add_message(@, "user")]
                               /\ Return(r, [op |-> "confirm_generation",
                                             session_id |-> sid, message |-> "HTTP 500",
                                             state |-> NoneV, pending |-> 0,
                                             active_task |-> 0])
                          ELSE /\ heap' = h2
                               /\ reqs' = [reqs EXCEPT ![r] =
                                              [IdleReq EXCEPT !.op = "confirm_generation",
                                                              !.pc = "ctx", !.sid = sid,
                                                              !.obj = o, !.cid = cid,
                                                              !.pend = pending]]
                               /\ UNCHANGED response
    /\ UNCHANGED <<tasks, jobs, dbvars, provider_log, ledger, probe>>

\* confirm_generation up to its first await (_build_context), or its early return
CGStart(r, sid, cid, modifications, client_pg) ==
    /\ CanStart(r)
    /\ ncalls' = ncalls + 1
    /\ LET adopt == ~SessionExists(sid) /\ client_pg # NoPending /\ cid # NoneV
           reply(msg) == ChatResponse("confirm_generation", sid, msg, "IDLE", 0, 0)
       IN  IF ~SessionExists(sid) /\ ~adopt
           THEN /\ Return(r, reply("Session not found"))
                /\ UNCHANGED <<sessions, heap, npending>>
           ELSE /\ adopt => Len(heap) < MaxSessionObjects
                /\ LET o == ObjAfterGet(sid)
                       h1 == IF adopt
                             THEN [HeapAfterGet(sid, cid) EXCEPT
                                      ![o].pending_generation =
                                          PendingGen(npending + 1, client_pg.skill,
                                                     client_pg.content_type,
                                                     client_pg.reference_image_path,
                                                     client_pg.reference_image_mode,
                                                     client_pg.optimized_prompt)]
                             ELSE heap
                       h2 == IF cid # NoneV /\ h1[o].character_id = NoneV
                             THEN [h1 EXCEPT ![o].character_id = cid] ELSE h1
                       pending == h2[o].pending_generation
                   IN  /\ sessions' = IF adopt THEN SessionsAfterGet(sid) ELSE sessions
                       /\ npending' = IF adopt THEN npending + 1 ELSE npending
                       /\ IF pending = NoPending
                          THEN /\ heap' = h2
                               /\ Return(r, reply("No pending generation task"))
                          ELSE IF modifications
                          THEN \* process_message is called without its required
                               \* reference_image_mode argument: TypeError, HTTP 500
                               /\ heap' = [h2 EXCEPT ![o].messages = add_message(@, "user")]
                               /\ Return(r, [op |-> "confirm_generation",
                                             session_id |-> sid, message |-> "HTTP 500",
                                             state |-> NoneV, pending |-> 0,
                                             active_task |-> 0])
                          ELSE /\ heap' = h2
                               /\ reqs' = [reqs EXCEPT ![r] =
                                              [IdleReq EXCEPT !.op = "confirm_generation",
                                                              !.pc = "ctx", !.sid = sid,
                                                              !.obj = o, !.cid = cid,
                                                              !.pend = pending]]
                               /\ UNCHANGED response
    /\ UNCHANGED <<tasks, jobs, dbvars, provider_log, ledger, probe>>

\* the message confirm_generation returns with the task it created
StartedMessage == "started"

\* result["message"] of the job: the guidance written over a successful
\* identity image (substituted for a video, or asked for as a base image),
\* else what the skill put there
Guidance == "approve_and_retry"
ResultMessage(skill, content_type, outcome) ==
    IF outcome # "ok" THEN NoneV
    ELSE IF skill = "video_generator" THEN Guidance
    ELSE IF content_type = "base" THEN "approve_base"
    ELSE "generated"

\* GenerationTask(...) as confirm_generation constructs it
NewTask(pending, final_prompt, now) ==
    [status |-> "PENDING", progress |-> 0, stage |-> "preparing",
     prompt |-> final_prompt, reference_image_url |-> pending.reference_image_path,
     result_url |-> NoneV, error |-> NoneV, created_at |-> now, pid |-> pending.pid]

\* the coroutine asyncio.create_task schedules for the task
NewJob(sid, character_id, pending, has_base_images) ==
    [pc |-> "sched", sid |-> sid, character_id |-> character_id, skill |-> pending.skill,
     content_type |-> pending.content_type, ref |-> pending.reference_image_path,
     prompt |-> pending.optimized_prompt, has_base_images |-> has_base_images,
     message |-> NoneV]

\* variant: the confirm call runs the job up to its first provider await
\* before it returns
CGFinishBlocking(r, now) ==
    /\ reqs[r].op = "confirm_generation" /\ reqs[r].pc = "ctx"
    /\ Len(tasks) < MaxTasks
    /\ LET o == reqs[r].obj
           pending == reqs[r].pend
           tid == Len(tasks) + 1
       IN  /\ tasks' = Append(tasks, [NewTask(pending, pending.optimized_prompt, now)
                                         EXCEPT !.status = "GENERATING", !.progress = 20])
           /\ jobs' = Append(jobs, [NewJob(reqs[r].sid, heap[o].character_id, pending,
                                           approved_base > 0) EXCEPT !.pc = "provider"])
           /\ image_status' = Append(image_status, "GENERATING")
           /\ provider_log' = provider_log \cup
                  {[kind |-> "image_content", task |-> tid, pid |-> pending.pid]}
           /\ heap' = [heap EXCEPT ![o].active_tasks = @ \cup {tid},
                                   ![o].pending_generation = NoPending,
                                   ![o].state = "IDLE",
                                   ![o].messages = add_message(@, "assistant")]
           /\ Return(r, ChatResponse("confirm_generation", reqs[r].sid, StartedMessage,
                                     "IDLE", 0, tid))
    /\ UNCHANGED <<sessions, ncalls, npending, approved_base, unapproved_base, ledger, probe>>

\* variant: a confirmed generation also drops the pending edit
CGFinishClearsBoth(r, now) ==
    /\ reqs[r].op = "confirm_generation" /\ reqs[r].pc = "ctx"
    /\ Len(tasks) < MaxTasks
    /\ LET o == reqs[r].obj
           pending == reqs[r].pend
           tid == Len(tasks) + 1
           has_base_images == heap[o].character_id # NoneV /\ approved_base > 0
       IN  /\ tasks' = Append(tasks, NewTask(pending, pending.optimized_prompt, now))
           /\ jobs' = Append(jobs, NewJob(reqs[r].sid, heap[o].character_id, pending,
                                          has_base_images))
           /\ image_status' = Append(image_status, "none")
           /\ heap' = [heap EXCEPT ![o].active_tasks = @ \cup {tid},
                                   ![o].pending_generation = NoPending,
                                   ![o].pending_edit = NoPending,
                                   ![o].state = "IDLE",
                                   ![o].messages = add_message(@, "assistant")]
           /\ Return(r, ChatResponse("confirm_generation", reqs[r].sid, StartedMessage,
                                     "IDLE", 0, tid))
    /\ UNCHANGED <<sessions, ncalls, npending, approved_base, unapproved_base,
                   provider_log, ledger, probe>>

\* confirm_generation after _build_context: create the task, clear the slot,
\* schedule the job, return
CGFinish(r, now) ==
    /\ reqs[r].op = "confirm_generation" /\ reqs[r].pc = "ctx"
    /\ Len(tasks) < MaxTasks
    /\ LET o == reqs[r].obj
           pending == reqs[r].pend
           tid == Len(tasks) + 1
           has_base_images == heap[o].character_id # NoneV /\ approved_base > 0
       IN  /\ tasks' = Append(tasks, NewTask(pending, pending.optimized_prompt, now))
           /\ jobs' = Append(jobs, NewJob(reqs[r].sid, heap[o].character_id, pending,
                                          has_base_images))
           /\ image_status' = Append(image_status, "none")
           /\ heap' = [heap EXCEPT ![o].active_tasks = @ \cup {tid},
                                   ![o].pending_generation = NoPending,
                                   ![o].state = "IDLE",
                                   ![o].messages = add_message(@, "assistant")]
           /\ Return(r, ChatResponse("confirm_generation", reqs[r].sid, StartedMessage,
                                     "IDLE", 0, tid))
    /\ UNCHANGED <<sessions, ncalls, npending, approved_base, unapproved_base,
                   provider_log, ledger, probe>>

\* ---- _run_generation_task ------------------------------------------------

\* variant: the video branch ignores the missing identity image
VideoBranchAlwaysVideo(has_base_images) == "generate_with_image"

\* the skill the video branch runs: the identity image when the character had
\* no approved base image at confirm time, the video otherwise
VideoBranch(has_base_images) ==
    IF ~has_base_images THEN "generate_base" ELSE "generate_with_image"

\* variant: a successful result is recorded without its url
ApplyResultNoUrl(tk, ok) ==
    IF ok
    THEN [tk EXCEPT !.progress = 100, !.status = "COMPLETED", !.stage = "completed"]
    ELSE [tk EXCEPT !.progress = 100, !.status = "FAILED", !.stage = "failed",
                    !.error = "error"]

\* "Update task status based on result"
ApplyResult(tk, ok) ==
    IF ok
    THEN [tk EXCEPT !.progress = 100, !.status = "COMPLETED", !.stage = "completed",
                    !.result_url = "url"]
    ELSE [tk EXCEPT !.progress = 100, !.status = "FAILED", !.stage = "failed",
                    !.error = "error"]

\* the except branch of the job
OnException(tk) ==
    [tk EXCEPT !.status = "FAILED", !.stage = "failed", !.error = "exception",
               !.progress = 0]

\* the task once the job has taken it up and entered its skill branch
Generating(tk, stage) ==
    [tk EXCEPT !.status = "GENERATING", !.stage = stage, !.progress = 20]

\* ImageGeneratorSkill._generate_base_image / _generate_content_image up to the
\* provider call: "fail" when a precondition is missing, else the call is made
SkillPrecheck(action, character_id, prompt, ref, base_count) ==
    IF character_id = NoneV \/ prompt = "" THEN "fail"
    ELSE IF action = "generate_content" /\ base_count = 0 /\ ref = NoneV THEN "fail"
    ELSE "call"

\* the job from its start to its first await
JobStart(t) ==
    /\ t \in DOMAIN jobs /\ jobs[t].pc = "sched"
    /\ LET j == jobs[t]
           o == sessions[j.sid]
       IN  IF o = 0 \/ t \notin heap[o].active_tasks
           THEN /\ jobs' = [jobs EXCEPT ![t].pc = "done"]
                /\ UNCHANGED <<tasks, provider_log>>
           ELSE CASE j.skill = "image_generator" ->
                       /\ tasks' = [tasks EXCEPT ![t] = Generating(@, "generating image")]
                       /\ jobs' = [jobs EXCEPT ![t].pc = "db"]
                       /\ UNCHANGED provider_log
                  [] j.skill = "video_generator"
                       /\ VideoBranch(j.has_base_images) = "generate_base" ->
                       IF SkillPrecheck("generate_base", j.character_id, j.prompt,
                                        NoneV, 0) = "call"
                       THEN /\ tasks' = [tasks EXCEPT
                                            ![t] = Generating(@, "generating video")]
                            /\ provider_log' = provider_log \cup
                                   {[kind |-> "image_base", task |-> t, pid |-> tasks[t].pid]}
                            /\ jobs' = [jobs EXCEPT ![t].pc = "provider"]
                       ELSE /\ tasks' = [tasks EXCEPT ![t] =
                                   ApplyResult(Generating(@, "generating video"), FALSE)]
                            /\ jobs' = [jobs EXCEPT ![t].pc = "closing"]
                            /\ UNCHANGED provider_log
                  [] j.skill = "video_generator"
                       /\ VideoBranch(j.has_base_images) = "generate_with_image" ->
                       \* building the params reads pending.params.video_prompt,
                       \* a field PendingGenerationParams does not declare:
                       \* AttributeError before video_generator.execute is called
                       /\ tasks' = [tasks EXCEPT ![t] = Generating(@, "generating video")]
                       /\ jobs' = [jobs EXCEPT ![t].pc = "unwind"]
                       /\ UNCHANGED provider_log
                  [] OTHER ->
                       /\ tasks' = [tasks EXCEPT ![t] =
                              ApplyResult([@ EXCEPT !.status = "GENERATING",
                                                    !.stage = "generating",
                                                    !.progress = 10], FALSE)]
                       /\ jobs' = [jobs EXCEPT ![t].pc = "closing"]
                       /\ UNCHANGED provider_log
    /\ UNCHANGED <<sessions, heap, reqs, response, ncalls, npending, dbvars, ledger, probe>>

\* image branch: the commit of the GENERATING image record has returned or
\* raised ("commit_failed"), or the queries that follow it (the refresh, the
\* base image query of a content image) raised ("query_failed")
JobDb(t, outcome) ==
    /\ t \in DOMAIN jobs /\ jobs[t].pc = "db"
    /\ LET j == jobs[t]
           action == IF j.content_type = "base" THEN "generate_base"
                                                ELSE "generate_content"
       IN  CASE outcome = "commit_failed" ->
                  /\ jobs' = [jobs EXCEPT ![t].pc = "unwind"]
                  /\ UNCHANGED <<tasks, image_status, provider_log>>
             [] outcome = "query_failed" ->
                  /\ image_status' = [image_status EXCEPT ![t] = "GENERATING"]
                  /\ jobs' = [jobs EXCEPT ![t].pc = "unwind"]
                  /\ UNCHANGED <<tasks, provider_log>>
             [] OTHER ->
                  /\ image_status' = [image_status EXCEPT ![t] = "GENERATING"]
                  /\ IF SkillPrecheck(action, j.character_id, j.prompt, j.ref,
                                      approved_base) = "call"
                     THEN /\ provider_log' = provider_log \cup
                                 {[kind |-> IF action = "generate_base"
                                            THEN "image_base" ELSE "image_content",
                                   task |-> t, pid |-> tasks[t].pid]}
                          /\ jobs' = [jobs EXCEPT ![t].pc = "provider"]
                          /\ UNCHANGED tasks
                     ELSE /\ tasks' = [tasks EXCEPT ![t] = ApplyResult(@, FALSE)]
                          /\ jobs' = [jobs EXCEPT ![t].pc = "closing"]
                          /\ UNCHANGED provider_log
    /\ UNCHANGED <<sessions, heap, reqs, response, ncalls, npending, approved_base,
                   unapproved_base, ledger, probe>>

\* the image provider call, the download and the record update have finished:
\*   "ok"     an image url came back and was stored
\*   "no_url" the provider answered without an image url
\*   "error"  the provider or the storage raised (caught inside the skill)
JobProvider(t, outcome) ==
    /\ t \in DOMAIN jobs /\ jobs[t].pc = "provider"
    /\ LET j == jobs[t]
           isBase == j.skill = "video_generator" \/ j.content_type = "base"
           hasRecord == image_status[t] # "none"
       IN  /\ tasks' = [tasks EXCEPT ![t] = ApplyResult(@, outcome = "ok")]
           /\ image_status' =
                  IF hasRecord /\ outcome = "ok"
                  THEN [image_status EXCEPT ![t] = "COMPLETED"]
                  ELSE IF hasRecord /\ outcome = "error"
                  THEN [image_status EXCEPT ![t] = "FAILED"]
                  ELSE image_status
           /\ unapproved_base' = IF isBase /\ outcome = "ok"
                                 THEN unapproved_base + 1 ELSE unapproved_base
    /\ jobs' = [jobs EXCEPT ![t].pc = "closing",
                            ![t].message = ResultMessage(jobs[t].skill,
                                                         jobs[t].content_type, outcome)]
    /\ UNCHANGED <<sessions, heap, reqs, response, ncalls, npending, approved_base,
                   provider_log, ledger, probe>>

\* leaving "async with async_session()" after the result was recorded: the
\* close succeeds, or raises into the except branch
JobClose(t, ok) ==
    /\ t \in DOMAIN jobs /\ jobs[t].pc = "closing"
    /\ tasks' = IF ok THEN tasks ELSE [tasks EXCEPT ![t] = OnException(@)]
    /\ jobs' = [jobs EXCEPT ![t].pc = "done"]
    /\ UNCHANGED <<sessions, heap, reqs, response, ncalls, npending, dbvars,
                   provider_log, ledger, probe>>

\* an exception raised inside the try has left the "async with" (the session
\* close is awaited on the way out) and reaches the except branch
JobUnwind(t) ==
    /\ t \in DOMAIN jobs /\ jobs[t].pc = "unwind"
    /\ tasks' = [tasks EXCEPT ![t] = OnException(@)]
    /\ jobs' = [jobs EXCEPT ![t].pc = "done"]
    /\ UNCHANGED <<sessions, heap, reqs, response, ncalls, npending, dbvars,
                   provider_log, ledger, probe>>

\* ---- image edit through the agent ---------------------------------------

\* PendingEdit(skill, params, optimized_prompt); pid tells the instances apart
PendingEditOf(pid, source_image_path, prompt) ==
    [pid |-> pid, skill |-> "image_editor", source_image_path |-> source_image_path,
     optimized_prompt |-> prompt]

\* a pending edit sent along with a confirm request (ImageEditConfirmRequest)
ClientEdits == {[source_image_path |-> "src", optimized_prompt |-> "p"]}

\* process_edit_message up to its first await (_analyze_edit_intent)
PEStart(r, sid, cid) ==
    /\ CanStart(r)
    /\ CanGetOrCreate(sid)
    /\ LET o == ObjAfterGet(sid)
           h1 == HeapAfterGet(sid, cid)
       IN  /\ heap' = [h1 EXCEPT ![o].messages = add_message(@, "user"),
                                 ![o].state = "PLANNING"]
           /\ sessions' = SessionsAfterGet(sid)
           /\ reqs' = [reqs EXCEPT ![r] =
                          [IdleReq EXCEPT !.op = "process_edit_message",
                                          !.pc = "edit_intent", !.sid = sid,
                                          !.obj = o, !.cid = cid]]
    /\ ncalls' = ncalls + 1
    /\ UNCHANGED <<tasks, jobs, response, npending, dbvars, provider_log, ledger, probe>>

\* _analyze_edit_intent has returned: await edit_prompt_optimizer.optimize
PEIntent(r) ==
    /\ reqs[r].op = "process_edit_message" /\ reqs[r].pc = "edit_intent"
    /\ reqs' = [reqs EXCEPT ![r].pc = "edit_opt"]
    /\ UNCHANGED <<sessions, heap, tasks, jobs, response, ncalls, npending, dbvars,
                   provider_log, ledger, probe>>

\* the optimizer has returned: store the pending edit
PEFinish(r) ==
    /\ reqs[r].op = "process_edit_message" /\ reqs[r].pc = "edit_opt"
    /\ LET o == reqs[r].obj
           pe == PendingEditOf(npending + 1, "src", "p")
       IN  /\ heap' = [heap EXCEPT ![o].pending_edit = pe,
                                   ![o].state = "AWAITING_CONFIRMATION",
                                   ![o].messages = add_message(@, "assistant")]
           /\ Return(r, ChatResponse("process_edit_message", reqs[r].sid, "edit_card",
                                     "AWAITING_CONFIRMATION", pe.pid, 0))
    /\ npending' = npending + 1
    /\ UNCHANGED <<sessions, tasks, jobs, ncalls, dbvars, provider_log, ledger, probe>>

\* confirm_edit up to the awaited provider call of image_editor.edit, or its
\* early return
CEStart(r, sid, cid, client_pe) ==
    /\ CanStart(r)
    /\ ncalls' = ncalls + 1
    /\ LET adopt == ~SessionExists(sid) /\ client_pe # NoPending /\ cid # NoneV
           reply(msg) == ChatResponse("confirm_edit", sid, msg, "IDLE", 0, 0)
       IN  IF ~SessionExists(sid) /\ ~adopt
           THEN /\ Return(r, reply("Session not found"))
                /\ UNCHANGED <<sessions, heap, npending, provider_log>>
           ELSE /\ adopt => Len(heap) < MaxSessionObjects
                /\ LET o == ObjAfterGet(sid)
                       h1 == IF adopt
                             THEN [HeapAfterGet(sid, cid) EXCEPT
                                      ![o].pending_edit =
                                          PendingEditOf(npending + 1,
                                                        client_pe.source_image_path,
                                                        client_pe.optimized_prompt)]
                             ELSE heap
                       h2 == IF cid # NoneV /\ h1[o].character_id = NoneV
                             THEN [h1 EXCEPT ![o].character_id = cid] ELSE h1
                       pending == h2[o].pending_edit
                   IN  /\ sessions' = IF adopt THEN SessionsAfterGet(sid) ELSE sessions
                       /\ npending' = IF adopt THEN npending + 1 ELSE npending
                       /\ IF pending = NoPending
                          THEN /\ heap' = h2
                               /\ Return(r, reply("No pending edit task"))
                               /\ UNCHANGED provider_log
                          ELSE IF h2[o].character_id = NoneV
                          THEN /\ heap' = h2
                               /\ Return(r, reply("select_character"))
                               /\ UNCHANGED provider_log
                          ELSE /\ heap' = [h2 EXCEPT ![o].state = "EXECUTING"]
                               /\ provider_log' = provider_log \cup
                                      {[kind |-> "image_edit", task |-> 0,
                                        pid |-> pending.pid]}
                               /\ reqs' = [reqs EXCEPT ![r] =
                                              [IdleReq EXCEPT !.op = "confirm_edit",
                                                              !.pc = "edit_provider",
                                                              !.sid = sid, !.obj = o,
                                                              !.cid = cid,
                                                              !.pend = pending]]
                               /\ UNCHANGED response
    /\ UNCHANGED <<tasks, jobs, dbvars, ledger, probe>>

\* image_editor.edit has returned (ok: an edited image was stored): clear the
\* pending edit, back to IDLE, return
CEFinish(r, ok) ==
    /\ reqs[r].op = "confirm_edit" /\ reqs[r].pc = "edit_provider"
    /\ heap' = [heap EXCEPT ![reqs[r].obj].pending_edit = NoPending,
                            ![reqs[r].obj].state = "IDLE",
                            ![reqs[r].obj].messages = add_message(@, "assistant")]
    /\ Return(r, ChatResponse("confirm_edit", reqs[r].sid,
                              IF ok THEN "edited" ELSE "edit_failed", "IDLE", 0, 0))
    /\ UNCHANGED <<sessions, tasks, jobs, ncalls, npending, dbvars, provider_log, ledger, probe>>

\* ---- task polling --------------------------------------------------------

\* Agent.get_task (0: None)
get_task(sid, tid) ==
    IF ~SessionExists(sid) THEN 0
    ELSE IF tid \in heap[sessions[sid]].active_tasks THEN tid
    ELSE 0

\* variant: an unknown task is reported as still pending
SnapshotPending(sid, tid, now) ==
    [task_id |-> tid, status |-> "PENDING", progress |-> 0, stage |-> "preparing",
     prompt |-> "", reference_image_url |-> NoneV, result_url |-> NoneV,
     error |-> NoneV, created_at |-> now]

\* the GenerationTask the polling endpoint serialises
Snapshot(sid, tid, now) ==
    IF get_task(sid, tid) = 0
    THEN [task_id |-> tid, status |-> "FAILED", progress |-> 0, stage |-> "not_found",
          prompt |-> "", reference_image_url |-> NoneV, result_url |-> NoneV,
          error |-> "Task not found (server may have restarted)", created_at |-> now]
    ELSE [task_id |-> tid, status |-> tasks[tid].status,
          progress |-> tasks[tid].progress, stage |-> tasks[tid].stage,
          prompt |-> tasks[tid].prompt,
          reference_image_url |-> tasks[tid].reference_image_url,
          result_url |-> tasks[tid].result_url, error |-> tasks[tid].error,
          created_at |-> tasks[tid].created_at]

\* GET /agent/tasks/{task_id}; task id 0 stands for an id that was never issued
get_task_status(sid, tid, now) ==
    /\ ncalls < MaxCalls
    /\ tid <= Len(tasks)
    /\ ncalls' = ncalls + 1
    /\ response' = [op |-> "get_task", session_id |-> sid,
                    task |-> Snapshot(sid, tid, now)]
    /\ UNCHANGED <<sessions, heap, tasks, jobs, reqs, npending, dbvars, provider_log,
                   ledger, probe>>

\* inputs of the job supervisor specification
CoreIntents ==
    {res \in IntentResults : res.intent \in {"generate_image", "generate_video",
                                             "general_chat"}}
CoreRefInputs == {<<NoneV, NoneV>>, <<"ref", "face_swap">>}
TaskIds == 1..MaxTasks

Next ==
    \/ \E r \in Slots, sid \in SessionIds, refin \in CoreRefInputs :
            PMStart(r, sid, "c1", refin)
    \/ \E r \in Slots : PMContext(r)
    \/ \E r \in Slots, res \in CoreIntents : PMIntent(r, res)
    \/ \E r \in Slots : PMOptimized(r)
    \/ \E r \in Slots, sid \in SessionIds, cid \in CharacterIds \cup {NoneV},
          m \in BOOLEAN, pg \in ClientPendings \cup {NoPending} : CGStart(r, sid, cid, m, pg)
    \/ \E r \in Slots : CGFinish(r, "t1")
    \/ \E r \in Slots, sid \in SessionIds : PEStart(r, sid, "c1")
    \/ \E r \in Slots : PEIntent(r)
    \/ \E r \in Slots : PEFinish(r)
    \/ \E r \in Slots, sid \in SessionIds, pe \in ClientEdits \cup {NoPending} :
            CEStart(r, sid, "c1", pe)
    \/ \E r \in Slots, ok \in BOOLEAN : CEFinish(r, ok)
    \/ \E t \in TaskIds : JobStart(t)
    \/ \E t \in TaskIds, o \in {"ok", "commit_failed", "query_failed"} : JobDb(t, o)
    \/ \E t \in TaskIds, o \in {"ok", "no_url", "error"} : JobProvider(t, o)
    \/ \E t \in TaskIds, ok \in BOOLEAN : JobClose(t, ok)
    \/ \E t \in TaskIds : JobUnwind(t)
    \/ \E sid \in SessionIds, t \in TaskIds \cup {0}, now \in ClockReadings :
            get_task_status(sid, t, now)
    \/ \E sid \in SessionIds : cancel_pending(sid)
    \/ \E sid \in SessionIds : clear_session(sid)

Spec == Init /\ [][Next]_vars

\* the chat surface with every intent and reference input
NextChat ==
    \/ \E r \in Slots, sid \in SessionIds, cid \in CharacterIds \cup {NoneV},
          refin \in RefInputs : PMStart(r, sid, cid, refin)
    \/ \E r \in Slots : PMContext(r)
    \/ \E r \in Slots, res \in IntentResults : PMIntent(r, res)
    \/ \E r \in Slots : PMOptimized(r)
    \/ \E r \in Slots, ok \in BOOLEAN : PMSkillDone(r, ok)
    \/ \E r \in Slots : PMBaseCount(r)
    \/ \E r \in Slots : PMBaseCommit(r)
    \/ \E sid \in SessionIds : cancel_pending(sid)
    \/ \E sid \in SessionIds : clear_session(sid)

SpecChat == Init /\ [][NextChat]_vars

\* the chat surface around fetch_instagram: messages with and without a
\* reference image, with and without a mode
IgRefInputs ==
    {<<NoneV, NoneV>>, <<NoneV, "custom">>, <<"ref", "face_swap">>, <<"ref", "custom">>}
IgIntents ==
    {res \in IntentResults : res.intent \in {"fetch_instagram", "generate_image",
                                             "general_chat"}}

NextInstagram ==
    \/ \E r \in Slots, sid \in SessionIds, refin \in IgRefInputs :
            PMStart(r, sid, "c1", refin)
    \/ \E r \in Slots : PMContext(r)
    \/ \E r \in Slots, res \in IgIntents : PMIntent(r, res)
    \/ \E r \in Slots : PMOptimized(r)
    \/ \E r \in Slots, ok \in BOOLEAN : PMSkillDone(r, ok)
    \/ \E sid \in SessionIds : clear_session(sid)

SpecInstagram == Init /\ [][NextInstagram]_vars

\* the job of task t takes a step
JobStep(t) ==
    \/ JobStart(t)
    \/ \E o \in {"ok", "commit_failed", "query_failed"} : JobDb(t, o)
    \/ \E o \in {"ok", "no_url", "error"} : JobProvider(t, o)
    \/ \E ok \in BOOLEAN : JobClose(t, ok)
    \/ JobUnwind(t)

\* the event loop runs every scheduled job, and every awaited call returns or
\* raises
SpecLive == Spec /\ \A t \in TaskIds : WF_vars(JobStep(t))

\* ---- single functions, each followed by `probe` while the rest stands still ----

sysvars == <<sessions, heap, tasks, jobs, reqs, response, ncalls, npending, approved_base,
             unapproved_base, image_status, provider_log, token_balance, transactions>>

\* ---- Agent._analyze_intent and Agent._detect_intent_simple ----

\* a message text, as far as the local classifier reads it: the substrings
\* it searches for
Texts ==
    [instagram : BOOLEAN, base_kw : BOOLEAN, url : BOOLEAN, image_kw : BOOLEAN,
     video_kw : BOOLEAN]

\* "Generation started... You can continue chatting, and you'll be notified
\* when it's done.": none of the classifier's substrings occurs in it
GenerationStarted ==
    [instagram |-> FALSE, base_kw |-> FALSE, url |-> FALSE, image_kw |-> FALSE,
     video_kw |-> FALSE]

LocalIntent(intent, needs_confirmation, content_type) ==
    [intent |-> intent, has_intent |-> TRUE, needs_confirmation |-> needs_confirmation,
     content_type |-> content_type]

detect_intent_simple(message) ==
    IF message.instagram THEN LocalIntent("fetch_instagram", FALSE, NoneV)
    ELSE IF message.base_kw /\ message.url THEN LocalIntent("add_base_image", FALSE, NoneV)
    ELSE IF message.video_kw THEN LocalIntent("generate_video", TRUE, "content_post")
    ELSE IF message.image_kw THEN LocalIntent("generate_image", TRUE, "content_post")
    ELSE LocalIntent("general_chat", FALSE, NoneV)

\* what awaiting chat_reasoning_json can end in: a JSON object (with or
\* without an "intent" key; its response_message plain, matching a refusal
\* indicator, not a string, or absent), a JSON value that is no object, a text
\* no JSON is found in, or an exception of the transport
ReasoningOutcomes ==
    [kind : {"dict"}, has_intent : BOOLEAN, intent : {"generate_image", "general_chat"},
     needs_confirmation : BOOLEAN,
     response_message : {"plain", "refusal", "not_str", "absent"}]
    \cup
    [kind : {"not_dict", "unparseable", "raise"}, has_intent : {FALSE}, intent : {NoneV},
     needs_confirmation : {FALSE}, response_message : {"absent"}]

\* the refusal test of the try block
Refused(outcome) == outcome.kind = "dict" /\ outcome.response_message = "refusal"

\* the try block raises: the await raised, result.get on a value that is no
\* dict, .lower() on a response_message that is no string
TryRaises(outcome) ==
    \/ outcome.kind \in {"not_dict", "unparseable", "raise"}
    \/ outcome.kind = "dict" /\ outcome.response_message = "not_str"

\* the provider's object handed back as it is
ProviderIntent(outcome) ==
    [intent |-> IF outcome.has_intent THEN outcome.intent ELSE NoneV,
     has_intent |-> outcome.has_intent,
     needs_confirmation |-> outcome.needs_confirmation,
     content_type |-> NoneV]

analyze_intent(last_message, outcome) ==
    IF TryRaises(outcome) THEN [raised |-> FALSE, value |-> detect_intent_simple(last_message)]
    ELSE IF Refused(outcome) THEN [raised |-> FALSE, value |-> detect_intent_simple(last_message)]
    ELSE [raised |-> FALSE, value |-> ProviderIntent(outcome)]

\* messages another request appends to the session at most
MaxInterleaved == 1

\* process_message has appended its user message and awaits _build_context
InitIntent ==
    /\ InitSystem
    /\ \E message \in Texts :
        probe = [fn |-> "_analyze_intent", pc |-> "ctx", message |-> message,
                 messages |-> <<[role |-> "user", content |-> message]>>,
                 last_message |-> message, interleaved |-> 0,
                 outcome |-> CHOOSE o \in ReasoningOutcomes : o.kind = "raise",
                 result |-> [raised |-> FALSE, value |-> LocalIntent(NoneV, FALSE, NoneV)]]

\* while process_message awaits _build_context another request of the same
\* session appends: a process_message call its user message, a
\* confirm_generation call its "Generation started..."
ConcurrentAppend(role, content) ==
    /\ probe.pc = "ctx"
    /\ probe.interleaved < MaxInterleaved
    /\ probe' = [probe EXCEPT !.messages = Append(@, [role |-> role, content |-> content]),
                              !.interleaved = @ + 1]
    /\ UNCHANGED sysvars

\* _analyze_intent up to its await: last_message is read from the session
AnalyzeStart ==
    /\ probe.pc = "ctx"
    /\ probe' = [probe EXCEPT !.pc = "provider",
                              !.last_message = probe.messages[Len(probe.messages)].content]
    /\ UNCHANGED sysvars

\* the await ends and _analyze_intent returns
AnalyzeReturn(outcome) ==
    /\ probe.pc = "provider"
    /\ probe' = [probe EXCEPT !.pc = "returned", !.outcome = outcome,
                              !.result = analyze_intent(probe.last_message, outcome)]
    /\ UNCHANGED sysvars

NextIntent ==
    \/ \E content \in Texts : ConcurrentAppend("user", content)
    \/ ConcurrentAppend("assistant", GenerationStarted)
    \/ AnalyzeStart
    \/ \E outcome \in ReasoningOutcomes : AnalyzeReturn(outcome)

SpecIntent == InitIntent /\ [][NextIntent]_vars

\* ---- PromptOptimizerSkill.optimize ----

\* a text is the sequence of its pieces; Blank is a piece of white space
Blank == " "

RECURSIVE lstrip(_)
lstrip(text) ==
    IF text # <<>> /\ Head(text) = Blank THEN lstrip(Tail(text)) ELSE text

RECURSIVE rstrip(_)
rstrip(text) ==
    IF text # <<>> /\ text[Len(text)] = Blank
    THEN rstrip(SubSeq(text, 1, Len(text) - 1))
    ELSE text

\* str.strip()
strip(text) == rstrip(lstrip(text))

ReferenceModes == {NoneV, "face_swap", "pose_background", "clothing_pose", "custom"}

FaceSwapFirst == "Use the first reference image (image 1) as the main composition"
BaseThenLast == "Use images 1-3 (base images) for the character's face and body features"
LastPoseBackground == "Use image 4 (last reference image) for pose and background"
LastClothingPose == "Use image 4 (last reference image) for pose and clothing"
LastCustom == "Use image 4 (last reference image) for pose, composition, and atmosphere"
QualityTags == "high quality, 4K, professional photography"

style_desc(style) ==
    IF style = "sexy" THEN "sensual and alluring pose, confident expression"
    ELSE "elegant and natural pose"

cloth_desc(cloth) ==
    IF cloth = "nude" THEN <<"nude, artistic nude photography, tasteful exposure">> ELSE <<>>

build_fallback_prompt(raw_prompt, style, cloth, has_reference_image, reference_image_mode) ==
    IF has_reference_image /\ reference_image_mode = "face_swap"
    THEN <<FaceSwapFirst, "Extract ONLY the facial features from images 2-4",
           "Face replacement details", "Preserve from image 1", "Photorealistic", ".">>
    ELSE (IF has_reference_image
          THEN (IF reference_image_mode = "pose_background"
                THEN <<BaseThenLast, LastPoseBackground, "Generate clothing from style/cloth">>
                ELSE IF reference_image_mode = "clothing_pose"
                THEN <<BaseThenLast, LastClothingPose, "Generate background from the scene">>
                ELSE <<BaseThenLast, LastCustom>>)
          ELSE <<"Use the base reference images (images 1-3)">>)
         \o <<style_desc(style)>>
         \o cloth_desc(cloth)
         \o (IF raw_prompt # <<>> THEN <<"Scene: ">> \o raw_prompt ELSE <<>>)
         \o <<QualityTags>>

\* the phrases _optimize_prompt takes for a refusal
RefusalPhrases == {"i cannot", "i'm sorry", "i must decline"}

\* what awaiting chat_creative can end in: a prompt, an empty text, white
\* space only, a text with a refusal phrase, or an exception
CreativeOutcomes ==
    {[raises |-> FALSE, text |-> <<"a portrait of the character">>],
     [raises |-> FALSE, text |-> <<Blank, "a portrait of the character", Blank>>],
     [raises |-> FALSE, text |-> <<>>],
     [raises |-> FALSE, text |-> <<Blank, Blank>>],
     [raises |-> FALSE, text |-> <<"i'm sorry", "but this request is not possible">>],
     [raises |-> TRUE, text |-> <<>>]}

\* the refusal test of _optimize_prompt
CreativeRefused(outcome) ==
    \E i \in 1..Len(outcome.text) : outcome.text[i] \in RefusalPhrases

\* the try block of _optimize_prompt and its handler; optimize returns the
\* optimized_prompt of the dict, whose success is always True
optimize_prompt(raw_prompt, style, cloth, has_reference_image, reference_image_mode, outcome) ==
    IF outcome.raises
    THEN build_fallback_prompt(raw_prompt, style, cloth, has_reference_image,
                               reference_image_mode)
    ELSE IF CreativeRefused(outcome)
    THEN strip(build_fallback_prompt(raw_prompt, style, cloth, has_reference_image,
                                     reference_image_mode))
    ELSE strip(outcome.text)

\* the calls of optimize that are followed: the arguments process_message
\* passes (scene text, style, cloth, reference image and mode)
OptimizeInputs ==
    [prompt : {<<>>, <<"on the beach">>}, style : {"", "sexy"}, cloth : {"", "nude"},
     has_reference_image : BOOLEAN, reference_image_mode : ReferenceModes]

InitOptimize ==
    /\ InitSystem
    /\ \E in \in OptimizeInputs :
        probe = [fn |-> "optimize", pc |-> "start", in |-> in, analysis |-> NoneV,
                 outcome |-> [raises |-> TRUE, text |-> <<>>], prompt |-> <<>>]

\* analyze_reference_image: reading the stored file is outside its try and
\* ends the call of optimize when it raises; the vision provider's failure is
\* an empty analysis
OptimizeAnalyze(analysis) ==
    /\ probe.fn = "optimize"
    /\ probe.pc = "start"
    /\ probe.in.has_reference_image
    /\ probe' = [probe EXCEPT !.pc = IF analysis = "storage_error" THEN "raised" ELSE "creative",
                              !.analysis = analysis]
    /\ UNCHANGED sysvars

\* the await of chat_creative ends and optimize returns
OptimizeReturn(outcome) ==
    /\ probe.fn = "optimize"
    /\ \/ probe.pc = "creative"
       \/ probe.pc = "start" /\ ~probe.in.has_reference_image
    /\ probe' = [probe EXCEPT !.pc = "returned", !.outcome = outcome,
                              !.prompt = optimize_prompt(probe.in.prompt, probe.in.style,
                                             probe.in.cloth, probe.in.has_reference_image,
                                             probe.in.reference_image_mode, outcome)]
    /\ UNCHANGED sysvars

NextOptimize ==
    \/ \E analysis \in {"text", "empty", "storage_error"} : OptimizeAnalyze(analysis)
    \/ \E outcome \in CreativeOutcomes : OptimizeReturn(outcome)

SpecOptimize == InitOptimize /\ [][NextOptimize]_vars

\* ---- the reference images of an agent job (prompt against list) ----

\* the position the fallback template gives the user's reference image
DeclaredByTemplate(prompt) ==
    IF \E i \in 1..Len(prompt) : prompt[i] = FaceSwapFirst THEN "first"
    ELSE IF \E i \in 1..Len(prompt) :
                prompt[i] \in {LastPoseBackground, LastClothingPose, LastCustom}
    THEN "last"
    ELSE "none"

\* the image order _optimize_prompt tells the creative provider to state
InstructedOrder(reference_image_mode) ==
    IF reference_image_mode = "face_swap" THEN "first" ELSE "last"

UserReference == "user_reference"

\* _get_base_images: the urls of the approved base images, newest first
base_image_urls(count) ==
    SubSeq(<<"base_image_1", "base_image_2", "base_image_3">>, 1, count)

\* the mode _generate_content_image finds in its params when the job calls
\* generate_content: the call passes no reference_image_mode, the parameter
\* defaults to None
JobReferenceMode(pending_mode) == NoneV

\* the list _generate_content_image sends to the image provider
reference_images(base_images, reference_image_mode) ==
    IF reference_image_mode = "face_swap"
    THEN <<UserReference>> \o SubSeq(base_images, 1, IF Len(base_images) > 1 THEN 1 ELSE Len(base_images))
    ELSE Append(base_images, UserReference)

\* a chat with a reference image of every mode, for a character with up to
\* MaxBaseImages approved base images
InitReference ==
    /\ InitSystem
    /\ \E in \in OptimizeInputs, count \in 0..MaxBaseImages :
        /\ in.has_reference_image
        /\ in.reference_image_mode # NoneV
        /\ probe = [fn |-> "reference_images", pc |-> "start", in |-> in,
                    base_images |-> count, declared |-> "none", prompt |-> <<>>,
                    sent |-> <<>>]

\* process_message: the optimizer's prompt becomes the pending generation's
ReferencePrompt(outcome) ==
    /\ probe.fn = "reference_images"
    /\ probe.pc = "start"
    /\ LET prompt == optimize_prompt(probe.in.prompt, probe.in.style, probe.in.cloth, TRUE,
                                     probe.in.reference_image_mode, outcome)
       IN  probe' = [probe EXCEPT
                !.pc = "pending",
                !.prompt = prompt,
                !.declared = IF outcome.raises \/ CreativeRefused(outcome)
                             THEN DeclaredByTemplate(prompt)
                             ELSE IF prompt = <<>> THEN "none"
                             ELSE InstructedOrder(probe.in.reference_image_mode)]
    /\ UNCHANGED sysvars

\* the confirmed job: generate_content, _get_base_images, the list handed to
\* the image provider
ReferenceGenerate ==
    /\ probe.fn = "reference_images"
    /\ probe.pc = "pending"
    /\ probe' = [probe EXCEPT
            !.pc = "sent",
            !.sent = reference_images(base_image_urls(probe.base_images),
                                      JobReferenceMode(probe.in.reference_image_mode))]
    /\ UNCHANGED sysvars

NextReference ==
    \/ \E outcome \in CreativeOutcomes : ReferencePrompt(outcome)
    \/ ReferenceGenerate

SpecReference == InitReference /\ [][NextReference]_vars

\* ---- ParrotClient.wait_for_video inside VideoGeneratorSkill._generate_video ----

\* wait_for_video's defaults; _generate_video passes neither
WaitTimeout == 300
PollInterval == 5

\* what one get_video_status call can give: a status that is neither final
\* nor failed, a finished status with or without a video url, a failed status,
\* or an HTTP error
StatusReplies == {"processing", "finished_url", "finished_no_url", "failed", "http_error"}

\* the status string of a reply, lower-cased
StatusOf(reply) ==
    CASE reply \in {"finished_url", "finished_no_url"} -> "finished"
      [] reply = "failed" -> "failed"
      [] OTHER -> "processing"

\* the job has been created; wait_for_video enters its loop (0 < timeout)
InitWait ==
    /\ InitSystem
    /\ probe = [fn |-> "wait_for_video", pc |-> "poll", elapsed |-> 0, polls |-> 0,
                last_status |-> NoneV, reply |-> NoneV, outcome |-> NoneV,
                success |-> FALSE, task_status |-> "GENERATING"]

\* variant: a finished status ends the wait whether or not it carries a url
WaitPollAnyFinished(reply) ==
    /\ probe.fn = "wait_for_video" /\ probe.pc = "poll"
    /\ probe' = [probe EXCEPT
            !.polls = @ + 1,
            !.reply = reply,
            !.last_status = IF reply = "http_error" THEN @ ELSE StatusOf(reply),
            !.pc = IF reply \in {"http_error", "finished_url", "finished_no_url", "failed"}
                   THEN "ended" ELSE "sleep",
            !.outcome = CASE reply = "http_error" -> "HTTPError"
                          [] reply \in {"finished_url", "finished_no_url"} -> "return"
                          [] reply = "failed" -> "ValueError"
                          [] OTHER -> @]
    /\ UNCHANGED sysvars

\* one pass of the loop body up to asyncio.sleep: the await of
\* get_video_status ends with reply
WaitPoll(reply) ==
    /\ probe.fn = "wait_for_video" /\ probe.pc = "poll"
    /\ probe' = [probe EXCEPT
            !.polls = @ + 1,
            !.reply = reply,
            !.last_status = IF reply = "http_error" THEN @ ELSE StatusOf(reply),
            !.pc = IF reply \in {"http_error", "finished_url", "failed"}
                   THEN "ended" ELSE "sleep",
            !.outcome = CASE reply = "http_error" -> "HTTPError"
                          [] reply = "finished_url" -> "return"
                          [] reply = "failed" -> "ValueError"
                          [] OTHER -> @]
    /\ UNCHANGED sysvars

\* asyncio.sleep returns: elapsed grows, the loop test is made again
WaitSleep ==
    /\ probe.fn = "wait_for_video" /\ probe.pc = "sleep"
    /\ LET elapsed == probe.elapsed + PollInterval
       IN  probe' = [probe EXCEPT
                !.elapsed = elapsed,
                !.pc = IF elapsed < WaitTimeout THEN "poll" ELSE "ended",
                !.outcome = IF elapsed < WaitTimeout THEN @ ELSE "TimeoutError"]
    /\ UNCHANGED sysvars

\* _generate_video after the wait (its except clause turns every exception
\* into a failure result; the download and the record are taken to succeed)
\* and the job's reading of the result
WaitResult ==
    /\ probe.fn = "wait_for_video" /\ probe.pc = "ended"
    /\ LET success == probe.outcome = "return"
       IN  probe' = [probe EXCEPT
                !.pc = "done",
                !.success = success,
                !.task_status =
                    ApplyResult(Generating(NewTask(PendingGen(1, "video_generator",
                                                              "content_post", NoneV, NoneV,
                                                              "p"), "p", "t1"),
                                           "generating video"), success).status]
    /\ UNCHANGED sysvars

NextWait ==
    \/ \E reply \in StatusReplies : WaitPoll(reply)
    \/ WaitSleep
    \/ WaitResult

SpecWait == InitWait /\ [][NextWait]_vars

\* every await of the loop returns or raises: the status request has a client
\* timeout, the sleep is finite
SpecWaitLive == SpecWait /\ WF_vars(NextWait)

\* ---- ConversationSession.add_message over long conversations ----

\* messages appended to one session at most
MaxAppends == 25

HistorySessions == {"s1", "s2"}

\* the n-th message appended to a session: process_message appends the user's
\* message, then the assistant's reply
NthMessage(n) == [role |-> IF n % 2 = 1 THEN "user" ELSE "assistant", n |-> n]

\* two sessions just created
InitHistory ==
    /\ InitSystem
    /\ probe = [fn |-> "add_message",
                messages |-> [s \in HistorySessions |-> <<>>],
                appended |-> [s \in HistorySessions |-> 0]]

\* process_message on session s appends the user message
HistoryUser(s) ==
    /\ probe.fn = "add_message"
    /\ probe.appended[s] < MaxAppends
    /\ probe.appended[s] % 2 = 0
    /\ probe' = [probe EXCEPT
            !.messages[s] = add_message(@, NthMessage(probe.appended[s] + 1)),
            !.appended[s] = @ + 1]
    /\ UNCHANGED sysvars

\* process_message on session s appends the assistant's reply
HistoryReply(s) ==
    /\ probe.fn = "add_message"
    /\ probe.appended[s] < MaxAppends
    /\ probe.appended[s] % 2 = 1
    /\ probe' = [probe EXCEPT
            !.messages[s] = add_message(@, NthMessage(probe.appended[s] + 1)),
            !.appended[s] = @ + 1]
    /\ UNCHANGED sysvars

NextHistory ==
    \/ \E s \in HistorySessions : HistoryUser(s)
    \/ \E s \in HistorySessions : HistoryReply(s)

SpecHistory == InitHistory /\ [][NextHistory]_vars

\* ---- the token ledger (app/services/tokens.py) ----

\* variant: deduct_tokens without its balance check
deduct_tokens_unchecked(balance, operation, reference_id) ==
    LET cost == TOKEN_COSTS(operation)
    IN  [raised |-> NoneV, token_balance |-> balance - cost,
         added |-> <<[amount |-> 0 - cost, transaction_type |-> operation,
                      reference_id |-> reference_id, balance_after |-> balance - cost]>>]

\* deduct_tokens on a User object whose token_balance attribute is `balance`:
\* the 402 error, or the attribute afterwards and the row handed to db.add
deduct_tokens(balance, operation, reference_id) ==
    LET cost == TOKEN_COSTS(operation)
    IN  IF balance < cost
        THEN [raised |-> "402", token_balance |-> balance, added |-> <<>>]
        ELSE [raised |-> NoneV, token_balance |-> balance - cost,
              added |-> <<[amount |-> 0 - cost, transaction_type |-> operation,
                           reference_id |-> reference_id,
                           balance_after |-> balance - cost]>>]

\* f"{operation}_refund"
RefundType(operation) ==
    CASE operation = "image_generation" -> "image_generation_refund"
      [] operation = "video_generation" -> "video_generation_refund"
      [] OTHER -> "refund"

\* refund_tokens on a User object whose token_balance attribute is `balance`
refund_tokens(balance, operation, reference_id) ==
    LET cost == TOKEN_COSTS(operation)
    IN  [raised |-> NoneV, token_balance |-> balance + cost,
         added |-> <<[amount |-> cost, transaction_type |-> RefundType(operation),
                      reference_id |-> reference_id, balance_after |-> balance + cost]>>]

\* deductions and refunds applied to one User object at most
MaxLedgerOps == 4

Operations == {"image_generation", "video_generation", "image_edit"}

\* one User object with some balance, nothing added to the session yet
InitLedger ==
    /\ InitSystem
    /\ probe \in [fn : {"ledger"}, user : 0..3, added : {<<>>}, raised : {NoneV},
                  ops : {0}]

\* a caller awaits deduct_tokens(user, operation, db, reference_id)
LedgerDeduct(operation) ==
    /\ probe.fn = "ledger"
    /\ probe.ops < MaxLedgerOps
    /\ LET d == deduct_tokens(probe.user, operation, probe.ops + 1)
       IN  probe' = [probe EXCEPT !.user = d.token_balance, !.added = @ \o d.added,
                                  !.raised = d.raised, !.ops = @ + 1]
    /\ UNCHANGED sysvars

\* a caller awaits refund_tokens(user, operation, db, reference_id)
LedgerRefund(operation) ==
    /\ probe.fn = "ledger"
    /\ probe.ops < MaxLedgerOps
    /\ LET d == refund_tokens(probe.user, operation, probe.ops + 1)
       IN  probe' = [probe EXCEPT !.user = d.token_balance, !.added = @ \o d.added,
                                  !.raised = d.raised, !.ops = @ + 1]
    /\ UNCHANGED sysvars

NextLedger ==
    \/ \E op \in Operations : LedgerDeduct(op)
    \/ \E op \in Operations : LedgerRefund(op)

SpecLedger == InitLedger /\ [][NextLedger]_vars

\* ---- the endpoints that bill a generation and run it in a background job ----
\* generate_direct, retry_image (app/routers/images.py), direct_image_edit
\* (app/routers/agent.py), generate_base_images (app/routers/characters.py).
\* `token_balance` and `transactions` are the committed rows; every request and
\* every job works on the User object its own database session loaded.

\* image records created by these endpoints at most
MaxImages == 3
\* requests to these endpoints at most
MaxRequests == 2

\* the prompts of generate_base_images: one image, one token, one job each
BasePrompts == 3

DirectSlots == {1, 2}
Endpoints == {"generate_direct", "retry_image", "direct_image_edit",
              "generate_base_images"}
InitialBalances == {1, 3}

\* a request handler that is not running
IdleCall == [pc |-> "idle", endpoint |-> NoneV, user |-> 0, image |-> 0, left |-> 0,
             type |-> NoneV]

\* the image type an endpoint creates (retry_image copies the type of the
\* image it retries)
ImageTypes(endpoint) ==
    CASE endpoint = "generate_base_images" -> {"base"}
      [] endpoint = "retry_image" -> {"base", "content"}
      [] OTHER -> {"content"}

\* image records the running requests are still going to create
Reserved ==
    LET RECURSIVE sum(_)
        sum(S) == IF S = {} THEN 0
                  ELSE LET c == CHOOSE x \in S : TRUE
                       IN  (IF probe.calls[c].pc = "image" THEN probe.calls[c].left
                            ELSE IF probe.calls[c].pc = "deduct"
                            THEN probe.calls[c].left - 1 ELSE 0) + sum(S \ {c})
    IN  sum(DirectSlots)

InitDirect ==
    /\ sessions = [s \in SessionIds |-> 0]
    /\ heap = <<>>
    /\ tasks = <<>>
    /\ jobs = <<>>
    /\ reqs = [r \in Slots |-> IdleReq]
    /\ response = [op |-> NoneV]
    /\ ncalls = 0
    /\ npending = 0
    /\ approved_base \in {0, 1}
    /\ unapproved_base = 0
    /\ image_status = <<>>
    /\ provider_log = {}
    /\ token_balance \in InitialBalances
    /\ transactions = <<>>
    /\ probe = [fn |-> "endpoints", calls |-> [c \in DirectSlots |-> IdleCall],
                images |-> <<>>, jobs |-> <<>>, started |-> 0,
                initial |-> token_balance]

agentvars == <<sessions, heap, tasks, jobs, reqs, ncalls, npending, unapproved_base,
               image_status, provider_log>>

\* the request up to its first database write: get_current_user has loaded the
\* User row, the character was found; generate_base_images checks the balance
\* for all its prompts
DStart(c, endpoint, type) ==
    /\ probe.fn = "endpoints"
    /\ probe.calls[c].pc = "idle"
    /\ \A q \in DirectSlots : probe.calls[q].pc = "idle" => ~(q < c)
    /\ probe.started < MaxRequests
    /\ type \in ImageTypes(endpoint)
    /\ LET needed == IF endpoint = "generate_base_images" THEN BasePrompts ELSE 1
       IN  /\ Len(probe.images) + Reserved + needed <= MaxImages
           /\ IF endpoint = "generate_base_images" /\ token_balance < BasePrompts
              THEN /\ response' = [op |-> "billing", status |-> 402]
                   /\ probe' = [probe EXCEPT !.started = @ + 1]
              ELSE /\ probe' = [probe EXCEPT !.started = @ + 1, !.calls[c] =
                          [pc |-> "image", endpoint |-> endpoint, user |-> token_balance,
                           image |-> 0, left |-> needed, type |-> type]]
                   /\ UNCHANGED response
    /\ UNCHANGED <<agentvars, approved_base, ledger>>

\* the image record is added with status GENERATING and committed
DImage(c) ==
    /\ probe.fn = "endpoints"
    /\ probe.calls[c].pc = "image"
    /\ probe' = [probe EXCEPT
            !.images = Append(@, [type |-> probe.calls[c].type, status |-> "GENERATING",
                                  endpoint |-> probe.calls[c].endpoint]),
            !.jobs = Append(@, [pc |-> "none", user |-> 0, mark |-> FALSE,
                                result |-> NoneV]),
            !.calls[c].image = Len(probe.images) + 1,
            !.calls[c].pc = "deduct"]
    /\ UNCHANGED <<agentvars, approved_base, ledger, response>>

\* deduct_tokens on the request's User object and the commit that writes the
\* object's balance and the transaction row; then asyncio.create_task of the
\* background job, and the next prompt or the response
DDeduct(c) ==
    /\ probe.fn = "endpoints"
    /\ probe.calls[c].pc = "deduct"
    /\ LET call == probe.calls[c]
           d == deduct_tokens(call.user, "image_generation", call.image)
       IN  IF d.raised # NoneV
           THEN /\ probe' = [probe EXCEPT !.calls[c] = IdleCall]
                /\ response' = [op |-> "billing", status |-> 402]
                /\ UNCHANGED ledger
           ELSE /\ token_balance' = d.token_balance
                /\ transactions' = transactions \o d.added
                /\ IF call.left > 1
                   THEN /\ probe' = [probe EXCEPT !.jobs[call.image].pc = "spawned",
                                                  !.calls[c].user = d.token_balance,
                                                  !.calls[c].left = @ - 1,
                                                  !.calls[c].pc = "image"]
                        /\ UNCHANGED response
                   ELSE /\ probe' = [probe EXCEPT !.jobs[call.image].pc = "spawned",
                                                  !.calls[c] = IdleCall]
                        /\ response' = [op |-> "billing", status |-> 200]
    /\ UNCHANGED <<agentvars, approved_base>>

\* what the generation of a job can come to:
\*   "ok"      the image was generated and its record set COMPLETED
\*   "no_base" generate_content found no approved base image and no reference
\*   "no_url"  the provider answered without an image url
\*   "error"   the provider or the storage raised inside the skill, which set
\*             the record FAILED and returned a failure result
\*   "raise"   an exception reached the job (the base image query of
\*             generate_content; any failure of the direct edit)
JobOutcomes(i) ==
    IF probe.images[i].endpoint = "direct_image_edit" THEN {"ok", "raise"}
    ELSE IF probe.images[i].type = "base" THEN {"ok", "no_url", "error"}
    ELSE IF approved_base = 0 THEN {"no_base", "raise"}
    ELSE {"ok", "no_url", "error", "raise"}

\* variant: a failure result ends the job without a refund (only the except
\* branch refunds)
DJobRunNoRefundOnFailure(i, outcome) ==
    /\ probe.fn = "endpoints"
    /\ i \in DOMAIN probe.jobs /\ probe.jobs[i].pc = "spawned"
    /\ outcome \in JobOutcomes(i)
    /\ LET e == probe.images[i].endpoint
       IN  CASE outcome = "ok" ->
                  probe' = [probe EXCEPT
                      !.images[i].status = "COMPLETED",
                      !.jobs[i].result = "success",
                      !.jobs[i].pc = IF e = "generate_base_images" THEN "approve"
                                     ELSE "done"]
             [] outcome = "raise" ->
                  probe' = [probe EXCEPT !.jobs[i].result = "exception",
                                         !.jobs[i].mark = TRUE,
                                         !.jobs[i].user = token_balance,
                                         !.jobs[i].pc = "commit"]
             [] OTHER ->
                  probe' = [probe EXCEPT
                      !.images[i].status = IF outcome = "error" THEN "FAILED" ELSE @,
                      !.jobs[i].result = "failure",
                      !.jobs[i].pc = "done"]
    /\ UNCHANGED <<agentvars, approved_base, ledger, response>>

\* the background job from its start to the end of its generation and, in
\* the failure branch and the except branch, to select(User) in its session
DJobRun(i, outcome) ==
    /\ probe.fn = "endpoints"
    /\ i \in DOMAIN probe.jobs /\ probe.jobs[i].pc = "spawned"
    /\ outcome \in JobOutcomes(i)
    /\ LET e == probe.images[i].endpoint
       IN  CASE outcome = "ok" ->
                  probe' = [probe EXCEPT
                      !.images[i].status = "COMPLETED",
                      !.jobs[i].result = "success",
                      !.jobs[i].pc = IF e = "generate_base_images" THEN "approve"
                                     ELSE "done"]
             [] outcome = "raise" ->
                  probe' = [probe EXCEPT !.jobs[i].result = "exception",
                                         !.jobs[i].mark = TRUE,
                                         !.jobs[i].user = token_balance,
                                         !.jobs[i].pc = "commit"]
             [] OTHER ->
                  probe' = [probe EXCEPT
                      !.images[i].status = IF outcome = "error" THEN "FAILED" ELSE @,
                      !.jobs[i].result = "failure",
                      !.jobs[i].mark = (e = "retry_image"),
                      !.jobs[i].user = token_balance,
                      !.jobs[i].pc = "commit"]
    /\ UNCHANGED <<agentvars, approved_base, ledger, response>>

\* refund_tokens on the job's User object, then the commit that writes the
\* object's balance, the transaction row and the image record marked FAILED
DJobRefund(i) ==
    /\ probe.fn = "endpoints"
    /\ i \in DOMAIN probe.jobs /\ probe.jobs[i].pc = "commit"
    /\ LET r == refund_tokens(probe.jobs[i].user, "image_generation", i)
       IN  /\ token_balance' = r.token_balance
           /\ transactions' = transactions \o r.added
    /\ probe' = [probe EXCEPT
            !.images[i].status = IF probe.jobs[i].mark THEN "FAILED" ELSE @,
            !.jobs[i].pc = "done"]
    /\ UNCHANGED <<agentvars, approved_base, response>>

\* _generate_single_base_image after a success: "Auto-approve"
DJobApprove(i) ==
    /\ probe.fn = "endpoints"
    /\ i \in DOMAIN probe.jobs /\ probe.jobs[i].pc = "approve"
    /\ approved_base' = approved_base + 1
    /\ probe' = [probe EXCEPT !.jobs[i].pc = "done"]
    /\ UNCHANGED <<agentvars, ledger, response>>

NextDirect ==
    \/ \E c \in DirectSlots, e \in Endpoints, ty \in {"base", "content"} : DStart(c, e, ty)
    \/ \E c \in DirectSlots : DImage(c)
    \/ \E c \in DirectSlots : DDeduct(c)
    \/ \E i \in 1..MaxImages, o \in {"ok", "no_base", "no_url", "error", "raise"} :
            DJobRun(i, o)
    \/ \E i \in 1..MaxImages : DJobRefund(i)
    \/ \E i \in 1..MaxImages : DJobApprove(i)

SpecDirect == InitDirect /\ [][NextDirect]_vars

\* ---- properties ----------------------------------------------------------

Terminal == {"COMPLETED", "FAILED"}
GenerationKinds == {"image_base", "image_content", "video"}

\* token transactions that debit / refund the cost of task t
Debits(t) == {i \in DOMAIN transactions :
                  transactions[i].task = t /\ transactions[i].amount < 0}
Refunds(t) == {i \in DOMAIN transactions :
                   transactions[i].task = t /\ transactions[i].amount > 0}

\* C1: every task created by confirm_generation has exactly one debit of its
\* fixed cost in the ledger, present from the moment the task exists (before
\* its job is scheduled and before any provider call)
C1_DebitOncePerTask ==
    \A t \in DOMAIN tasks : Cardinality(Debits(t)) = 1

\* C2: a task that ended FAILED has exactly one refund, a task that ended
\* COMPLETED has none, and no task has more than one
C2_RefundIffFailed ==
    \A t \in DOMAIN tasks :
        /\ Cardinality(Refunds(t)) <= 1
        /\ (jobs[t].pc = "done" /\ tasks[t].status = "FAILED")
               => Cardinality(Refunds(t)) = 1
        /\ tasks[t].status = "COMPLETED" => Cardinality(Refunds(t)) = 0

\* what one step may do to the tasks that exist
C3_Step ==
    \A t \in DOMAIN tasks :
        /\ tasks[t].status # tasks'[t].status =>
               \/ tasks[t].status = "PENDING" /\ tasks'[t].status = "GENERATING"
               \/ tasks[t].status = "GENERATING" /\ tasks'[t].status \in Terminal
        /\ tasks[t].status \in Terminal =>
               /\ tasks'[t].status = tasks[t].status
               /\ tasks'[t].progress = tasks[t].progress
               /\ tasks'[t].result_url = tasks[t].result_url
               /\ tasks'[t].error = tasks[t].error
\* C3: the status of a task moves only PENDING -> GENERATING -> COMPLETED or
\* FAILED, and once it is terminal its status, progress, result url and error
\* stay as they are in every later step
C3_TerminalImmutable == [][C3_Step]_vars

\* what one step may do to the progress of a task
C4_Step ==
    \A t \in DOMAIN tasks :
        /\ tasks'[t].progress \in 0..100
        /\ tasks'[t].progress >= tasks[t].progress
\* C4: the progress of every task is within 0..100 and no step lowers it
C4_ProgressMonotone == [][C4_Step]_vars

\* C5 as stated: no confirm call, of a generation or of an edit, is ever
\* suspended on the provider call of its approval
C5_NoConfirmAwaitsProvider ==
    \A r \in Slots :
        reqs[r].op \in {"confirm_generation", "confirm_edit"}
            => reqs[r].pc # "edit_provider"

\* the step in which a confirm handler returns
C5_Step ==
    \A r \in Slots :
        /\ (reqs[r].op = "confirm_generation" /\ reqs'[r].pc = "idle") =>
               /\ Len(tasks') = Len(tasks) + 1
               /\ tasks'[Len(tasks')].status = "PENDING"
               /\ jobs'[Len(tasks')].pc = "sched"
               /\ ~\E e \in provider_log' : e.task = Len(tasks')
               /\ heap'[reqs[r].obj].state = "IDLE"
               /\ response'.state = "IDLE"
        /\ (reqs[r].op = "confirm_edit" /\ reqs'[r].pc = "idle") =>
               /\ reqs[r].pc = "edit_provider"
               /\ \E e \in provider_log :
                      e.kind = "image_edit" /\ e.pid = reqs[r].pend.pid
               /\ heap'[reqs[r].obj].state = "IDLE"
               /\ response'.state = "IDLE"
\* C5: confirm_generation returns with the session IDLE while the task it
\* created is still PENDING, its job not started and no provider call made for
\* it; confirm_edit makes the edit provider call before it returns, and
\* returns with the session IDLE when that call has finished
C5_ConfirmReturn == [][C5_Step]_vars

\* C6: no two tasks were created from the same pending generation
C6_PendingConsumedOnce ==
    \A t1, t2 \in DOMAIN tasks : tasks[t1].pid = tasks[t2].pid => t1 = t2

\* provider calls on record, and the steps of process_message handlers
C7_Inv ==
    \A e \in provider_log :
        e.kind \in GenerationKinds =>
            /\ e.task \in DOMAIN tasks
            /\ tasks[e.task].pid = e.pid
            /\ tasks[e.task].status # "PENDING"
C7_Step ==
    \A r \in Slots :
        (/\ reqs'[r] # reqs[r]
         /\ reqs[r].op = "process_message" \/ reqs'[r].op = "process_message")
            => provider_log' = provider_log
\* C7: a step of process_message makes no provider call, and every generation
\* provider call on record was made by the job of a task that
\* confirm_generation created from that pending generation
C7_ProviderOnlyAfterConfirm == []C7_Inv /\ [][C7_Step]_vars

\* the step that creates a task, and the step in which provider and storage succeed
C8_Step ==
    \A t \in TaskIds :
        /\ (Len(tasks) = t - 1 /\ Len(tasks') = t) =>
               /\ tasks'[t].status = "PENDING"
               /\ tasks'[t].progress = 0
        /\ (/\ t \in DOMAIN jobs
            /\ jobs[t].skill = "image_generator"
            /\ jobs[t].pc = "provider"
            /\ image_status'[t] = "COMPLETED") =>
               /\ tasks'[t].status = "COMPLETED"
               /\ tasks'[t].progress = 100
               /\ tasks'[t].result_url # NoneV
               /\ transactions' = transactions
               /\ Refunds(t) = {}
\* C8: a task confirm_generation creates for image_generator starts PENDING
\* with progress 0; the step in which its provider call and the storage of the
\* result succeed leaves it COMPLETED, progress 100, result url set, and writes
\* no refund; and a task that is GENERATING ends up COMPLETED or FAILED
C8_ImageSuccess ==
    /\ [][C8_Step]_vars
    /\ \A t \in TaskIds :
           (t \in DOMAIN tasks /\ tasks[t].status = "GENERATING")
               ~> (t \in DOMAIN tasks /\ tasks[t].status \in Terminal)

\* a poll step, and a poll of ids that name no task of a live session
\* (no other request leaves the handlers alone and returns a task snapshot)
PollStep == ncalls' = ncalls + 1 /\ reqs' = reqs /\ response'.op = "get_task"
PollUnknown == PollStep /\ get_task(response'.session_id, response'.task.task_id) = 0
RepeatedPoll ==
    /\ response.op = "get_task"
    /\ response.task.stage = "not_found"
    /\ response.session_id = response'.session_id
    /\ response.task.task_id = response'.task.task_id
\* a snapshot without its created_at stamp
Unstamped(snap) == [snap EXCEPT !.created_at = NoneV]

\* a poll of unknown ids, compared in full with the poll before it
C9_StepSame ==
    PollUnknown =>
        /\ response'.task.status = "FAILED"
        /\ response'.task.stage = "not_found"
        /\ UNCHANGED <<sessions, heap, tasks, jobs, dbvars, provider_log, ledger>>
        /\ RepeatedPoll => response'.task = response.task
\* C9 as stated: a poll of an unknown session or task answers FAILED /
\* not_found, changes no state, and answers exactly as the poll before it
C9_SameAnswer == [][C9_StepSame]_vars

\* a poll of unknown ids, compared with the poll before it up to created_at
C9_Step ==
    PollUnknown =>
        /\ response'.task.status = "FAILED"
        /\ response'.task.stage = "not_found"
        /\ response'.task.progress = 0
        /\ response'.task.created_at \in ClockReadings
        /\ UNCHANGED <<sessions, heap, tasks, jobs, dbvars, provider_log, ledger>>
        /\ RepeatedPoll => Unstamped(response'.task) = Unstamped(response.task)
\* C9: a poll of an unknown session or task answers FAILED / not_found with
\* progress 0, changes no state, and repeats the answer of the poll before it
\* in every field but created_at, which is the time of the poll
C9_NotFoundSnapshot == [][C9_Step]_vars

\* C10: a video_generator job confirmed for a character without an approved
\* base image, once taken up, has called the image provider for a base image,
\* has made no video provider call, and no video cost is in the ledger
C10_VideoWithoutBase ==
    \A t \in DOMAIN jobs :
        (/\ jobs[t].skill = "video_generator"
         /\ ~jobs[t].has_base_images
         /\ jobs[t].character_id # NoneV
         /\ tasks[t].status # "PENDING") =>
            /\ [kind |-> "image_base", task |-> t, pid |-> tasks[t].pid] \in provider_log
            /\ ~\E e \in provider_log : e.task = t /\ e.kind = "video"
            /\ ~\E i \in DOMAIN transactions : transactions[i].op = "video_generation"

\* C11: a confirm_generation call given modification text for a session that
\* holds a pending generation is answered by process_message: every answer of
\* a confirm call is "started" with a task, one of the two not-found answers,
\* or a process_message response; none is a server error
C11_ModificationReplans ==
    response.op = "confirm_generation" =>
        response.message \in {"started", "Session not found",
                              "No pending generation task"}

\* C12: _analyze_intent returns a structured intent without raising for every
\* outcome of the reasoning provider; on refusal or exception the result is the
\* local classifier's result for the user message of the call; the local
\* classifier asks for confirmation with every generation intent
C12_IntentTotal ==
    /\ (probe.fn = "_analyze_intent" /\ probe.pc = "returned") =>
        /\ ~probe.result.raised
        /\ (Refused(probe.outcome) \/ TryRaises(probe.outcome)) =>
               probe.result.value = detect_intent_simple(probe.message)
    /\ \A message \in Texts :
        detect_intent_simple(message).intent \in {"generate_image", "generate_video"} =>
            detect_intent_simple(message).needs_confirmation

\* C13: optimize returns a non-empty prompt, without raising, for every outcome
\* of the creative provider: a prompt, an empty or blank text, a refusal, an
\* exception
C13_PromptNonEmpty ==
    (probe.fn = "optimize" /\ probe.pc = "returned") => probe.prompt # <<>>

\* C14: in a job confirmed through the agent with a user reference image, the
\* user's reference image stands in the list sent to the image provider where
\* the prompt (the optimizer's or its fallback template's) says it stands:
\* first, or last, relative to the identity images
C14_ReferenceOrder ==
    (probe.fn = "reference_images" /\ probe.pc = "sent") =>
        /\ probe.declared = "first" => probe.sent[1] = UserReference
        /\ probe.declared = "last" => probe.sent[Len(probe.sent)] = UserReference

\* what a cancel step may change
C15_Step ==
    \A sid \in SessionIds :
        (/\ ncalls' = ncalls + 1 /\ reqs' = reqs
         /\ response'.op = "cancel" /\ response'.session_id = sid) =>
            /\ sessions' = sessions /\ tasks' = tasks /\ jobs' = jobs
            /\ Len(heap') = Len(heap)
            /\ \A o \in DOMAIN heap :
                IF o = sessions[sid]
                THEN /\ heap'[o].pending_generation = NoPending
                     /\ heap'[o].pending_edit = NoPending
                     /\ heap'[o].state = "IDLE"
                     /\ heap'[o].messages = heap[o].messages
                     /\ heap'[o].active_tasks = heap[o].active_tasks
                     /\ heap'[o].character_id = heap[o].character_id
                ELSE heap'[o] = heap[o]

\* C15: cancel_pending on an existing session empties the pending-generation
\* and the pending-edit slot and sets the state to IDLE, leaving the session's
\* tasks (status, progress, result), jobs and message history as they were; on
\* an unknown session it changes nothing
C15_CancelFrame == [][C15_Step]_vars

\* the step in which handler r answers a general_chat intent with reply msg
GeneralChatStep(r, msg) ==
    /\ reqs[r].op = "process_message" /\ reqs[r].pc = "intent"
    /\ reqs'[r].pc = "idle"
    /\ response'.op = "process_message" /\ response'.message = msg

\* the step leaves the session IDLE with the reply appended and nothing else
\* changed
GeneralChatNoEffect(r) ==
    LET o == reqs[r].obj
    IN  /\ heap'[o] = [heap[o] EXCEPT !.messages = add_message(@, "assistant"),
                                      !.state = "IDLE"]
        /\ \A p \in DOMAIN heap : p # o => heap'[p] = heap[p]
        /\ Len(heap') = Len(heap)
        /\ sessions' = sessions /\ tasks' = tasks /\ jobs' = jobs
        /\ npending' = npending /\ response'.state = "IDLE"

C16_StepAll ==
    \A r \in Slots :
        (GeneralChatStep(r, "chat") \/ GeneralChatStep(r, "refusal")) =>
            GeneralChatNoEffect(r)

\* C16 as stated: when the resolved intent is general_chat, process_message
\* leaves the session IDLE, creates or changes no pending generation, pending
\* edit or task, and only appends to the history
C16_GeneralChatIdle == [][C16_StepAll]_vars

C16_Step ==
    \A r \in Slots :
        /\ GeneralChatStep(r, "chat") => GeneralChatNoEffect(r)
        /\ GeneralChatStep(r, "refusal") =>
            LET o == reqs[r].obj
            IN  /\ reqs[r].cid # NoneV
                /\ heap'[o].state = "AWAITING_CONFIRMATION"
                /\ heap'[o].pending_generation.skill = "image_generator"
                /\ heap'[o].pending_generation.pid = npending + 1
                /\ heap'[o].pending_edit = heap[o].pending_edit
                /\ heap'[o].messages = add_message(heap[o].messages, "assistant")
                /\ heap'[o].active_tasks = heap[o].active_tasks
                /\ tasks' = tasks /\ jobs' = jobs

\* C16, amended: a general_chat intent whose reply matches no refusal keyword,
\* or with no character selected, leaves the session IDLE and only appends the
\* reply; a general_chat intent whose reply matches a refusal keyword, with a
\* character selected, stores a pending generation for image_generator and
\* ends in AWAITING_CONFIRMATION; neither creates or changes a task or a
\* pending edit
C16_GeneralChatFrame == [][C16_Step]_vars

\* handler r runs process_message with a reference image and a mode other than
\* custom
QuickCall(r) ==
    reqs[r].op = "process_message" /\ IsQuickPath(reqs[r].ref, reqs[r].mode)

C17_Step ==
    \A r \in Slots :
        QuickCall(r) =>
            /\ reqs[r].pc # "intent" /\ reqs'[r].pc # "intent"
            /\ (reqs[r].pc = "ctx" /\ reqs'[r] # reqs[r]) =>
                IF reqs[r].cid # NoneV
                THEN /\ reqs'[r].pc = "opt"
                     /\ reqs'[r].intent.intent = "generate_image"
                ELSE /\ reqs'[r].pc = "idle"
                     /\ response'.message = "select_character"
                     /\ npending' = npending
            /\ (reqs[r].pc = "opt" /\ reqs'[r] # reqs[r]) =>
                LET s == heap'[reqs[r].obj]
                IN  /\ reqs[r].cid # NoneV
                    /\ reqs'[r].pc = "idle"
                    /\ s.state = "AWAITING_CONFIRMATION"
                    /\ s.pending_generation.skill = "image_generator"
                    /\ s.pending_generation.reference_image_path = reqs[r].ref
                    /\ s.pending_generation.reference_image_mode = reqs[r].mode
                    /\ response'.state = "AWAITING_CONFIRMATION"
                    /\ response'.pending = s.pending_generation.pid

ConfirmInputs == [cid : CharacterIds \cup {NoneV}, modifications : BOOLEAN,
                  pending_generation : ClientPendings \cup {NoPending}]

\* the request adopts: the session is created with the supplied pending
\* generation and the handler goes on to start the task
Adopted(r, sid, in) ==
    /\ sessions'[sid] # 0
    /\ Len(heap') = Len(heap) + 1
    /\ heap'[sessions'[sid]].character_id = in.cid
    /\ heap'[sessions'[sid]].pending_generation.pid = npending + 1
    /\ heap'[sessions'[sid]].pending_generation.skill = in.pending_generation.skill
    /\ reqs'[r].op = "confirm_generation" /\ reqs'[r].pc = "ctx"
    /\ reqs'[r].pend = heap'[sessions'[sid]].pending_generation

NotFound(sid) ==
    /\ response'.op = "confirm_generation"
    /\ response'.message = "Session not found"
    /\ sessions' = sessions /\ heap' = heap /\ tasks' = tasks /\ jobs' = jobs

\* the handler that adopted creates the task of the adopted pending generation
TaskStarted(r) ==
    (reqs[r].op = "confirm_generation" /\ reqs[r].pc = "ctx" /\ reqs'[r] # reqs[r]) =>
        /\ Len(tasks') = Len(tasks) + 1
        /\ tasks'[Len(tasks')].pid = reqs[r].pend.pid
        /\ Len(tasks') \in heap'[reqs[r].obj].active_tasks
        /\ response'.message = "started" /\ response'.active_task = Len(tasks')

C18_StepAll ==
    \A r \in Slots, sid \in SessionIds, in \in ConfirmInputs :
        (/\ ~SessionExists(sid)
         /\ CGStart(r, sid, in.cid, in.modifications, in.pending_generation)) =>
            IF in.cid # NoneV /\ in.pending_generation # NoPending
            THEN Adopted(r, sid, in)
            ELSE NotFound(sid)

C18_Step ==
    \A r \in Slots, sid \in SessionIds, in \in ConfirmInputs :
        (/\ ~SessionExists(sid)
         /\ CGStart(r, sid, in.cid, in.modifications, in.pending_generation)) =>
            IF in.cid # NoneV /\ in.pending_generation # NoPending
            THEN IF ~in.modifications
                 THEN Adopted(r, sid, in)
                 ELSE /\ sessions'[sid] # 0
                      /\ heap'[sessions'[sid]].pending_generation.pid = npending + 1
                      /\ tasks' = tasks /\ jobs' = jobs
                      /\ reqs'[r].pc = "idle"
                      /\ response'.message = "HTTP 500"
            ELSE NotFound(sid)

C19_Inv ==
    probe.fn = "wait_for_video" =>
        /\ probe.polls * PollInterval <= WaitTimeout
        /\ probe.pc \in {"ended", "done"} =>
            /\ probe.outcome = "return" <=> probe.reply = "finished_url"
            /\ probe.outcome = "ValueError" <=> probe.reply = "failed"
            /\ probe.outcome = "TimeoutError" <=>
                   probe.reply \in {"processing", "finished_no_url"}
            /\ probe.outcome = "TimeoutError" => probe.polls * PollInterval = WaitTimeout
        /\ (probe.pc = "done" /\ probe.outcome = "TimeoutError") =>
               probe.task_status = "FAILED"

\* C19: wait_for_video terminates for every sequence of status replies: it
\* returns exactly on a finished status with a video url, raises on a failed
\* status, and otherwise raises TimeoutError after timeout/poll_interval polls,
\* also when the status stays finished without a url; the timeout becomes a
\* failure result and a FAILED task
C19_WaitTerminates == [](C19_Inv) /\ <>(probe.pc = "done")

RECURSIVE AmountsUpTo(_)
AmountsUpTo(k) == IF k = 0 THEN 0 ELSE transactions[k].amount + AmountsUpTo(k - 1)

\* C21: whatever requests and background jobs of one user interleave, the
\* stored balance is the initial balance plus the amounts of all recorded
\* transactions, and each transaction's balance_after is the balance that
\* results from it
C21_LedgerAtomic ==
    probe.fn = "endpoints" =>
        /\ token_balance = probe.initial + AmountsUpTo(Len(transactions))
        /\ \A k \in DOMAIN transactions :
               transactions[k].balance_after = probe.initial + AmountsUpTo(k)

\* what a deduct_tokens call does to the User object and the session
C22_Step ==
    \A op \in Operations :
        LedgerDeduct(op) =>
            LET cost == CASE op = "image_generation" -> 1
                          [] op = "video_generation" -> 2
                          [] OTHER -> 1
            IN  IF probe.user < cost
                THEN /\ probe'.raised = "402"
                     /\ probe'.user = probe.user
                     /\ probe'.added = probe.added
                ELSE /\ probe'.raised = NoneV
                     /\ probe'.user = probe.user - cost
                     /\ Len(probe'.added) = Len(probe.added) + 1
                     /\ SubSeq(probe'.added, 1, Len(probe.added)) = probe.added
                     /\ probe'.added[Len(probe'.added)].amount = 0 - cost
                     /\ probe'.added[Len(probe'.added)].balance_after = probe'.user

\* C22: deduct_tokens on a balance below the operation's cost raises the 402
\* error and leaves the balance and the transactions as they were; otherwise
\* it lowers the balance by the cost (1 for image_generation, 2 for
\* video_generation) and records one transaction; no sequence of deductions
\* and refunds makes the balance negative
C22_DeductChecked ==
    /\ [][C22_Step]_vars
    /\ [](probe.fn = "ledger" => probe.user >= 0)

\* C23: the character never has more than 3 approved base images, whatever
\* approvals, add_base_image calls and base image generations have run
C23_BaseImagesCapped == approved_base <= 3

\* handler r of process_message, called without a character, learns that its
\* message asks for a generation: from the reasoning result or on the quick path
GenerationWithoutCharacter(r) ==
    /\ reqs[r].op = "process_message" /\ reqs[r].cid = NoneV
    /\ \/ \E res \in IntentResults :
            /\ res.intent \in {"generate_image", "generate_video"}
            /\ PMIntent(r, res)
       \/ (IsQuickPath(reqs[r].ref, reqs[r].mode) /\ PMContext(r))

C24_Step ==
    \A r \in Slots :
        GenerationWithoutCharacter(r) =>
            /\ reqs'[r] = IdleReq
            /\ response'.op = "process_message"
            /\ response'.message = "select_character"
            /\ response'.pending = 0 /\ response'.active_task = 0
            /\ \A o \in DOMAIN heap :
                   /\ heap'[o].pending_generation = heap[o].pending_generation
                   /\ heap'[o].pending_edit = heap[o].pending_edit
                   /\ heap'[o].active_tasks = heap[o].active_tasks
            /\ npending' = npending
            /\ tasks' = tasks /\ jobs' = jobs
            /\ provider_log' = provider_log
            /\ token_balance' = token_balance /\ transactions' = transactions

\* C24: a process_message call without a character whose message resolves to
\* generate_image or generate_video answers "select a character first",
\* stores no pending generation, creates no task, calls no provider and
\* leaves the ledger as it was
C24_NoCharacterNoGeneration == [][C24_Step]_vars

\* C25: the job of a confirmed video_generator task whose character had an
\* approved identity image at confirm time, once it has run with no provider
\* call failing, leaves the task COMPLETED with progress 100 and a result url
C25_VideoCompletes ==
    \A t \in DOMAIN jobs :
        (/\ jobs[t].skill = "video_generator"
         /\ jobs[t].has_base_images
         /\ jobs[t].pc = "done"
         /\ tasks[t].status # "PENDING")
            => /\ tasks[t].status = "COMPLETED"
               /\ tasks[t].progress = 100
               /\ tasks[t].result_url # NoneV

\* the transaction rows that deduct for image i / refund image i
ImageDebits(i) == {k \in DOMAIN transactions :
                      transactions[k].reference_id = i /\ transactions[k].amount < 0}
ImageRefunds(i) == {k \in DOMAIN transactions :
                       transactions[k].reference_id = i /\ transactions[k].amount > 0}

CancelledUnderConfirm(r) ==
    /\ reqs[r].op = "confirm_generation" /\ reqs[r].pc = "ctx"
    /\ reqs[r].pend.pid = npending
    /\ heap[reqs[r].obj].pending_generation = NoPending
    /\ \A t \in 1..Len(tasks) : tasks[t].pid # reqs[r].pend.pid

\* no step makes a task of a pending generation cancel_pending has discarded
C27_Step ==
    \A r \in Slots :
        CancelledUnderConfirm(r) =>
            \A t \in 1..Len(tasks') : tasks'[t].pid # reqs[r].pend.pid

\* C27: once cancel_pending has returned for a session, no GenerationTask is
\* created afterwards from the pending generation it discarded, even if a
\* confirm_generation call for that session had already started
C27_NoTaskAfterCancel == [][C27_Step]_vars

\* confirm call r returns in this step having left alone every pending item
\* of its session other than the one it read when it started
C28_Step ==
    \A r \in Slots :
        (/\ reqs[r].op \in {"confirm_generation", "confirm_edit"}
         /\ reqs[r].pc # "idle" /\ reqs'[r].pc = "idle") =>
            LET o == reqs[r].obj
                pg == heap[o].pending_generation
                pe == heap[o].pending_edit
            IN  /\ (pg # NoPending /\ pg.pid # reqs[r].pend.pid) =>
                       heap'[o].pending_generation = pg
                /\ (pe # NoPending /\ pe.pid # reqs[r].pend.pid) =>
                       heap'[o].pending_edit = pe

\* C28: a confirm clears only the pending item it consumed: a pending
\* generation or edit stored by a process_message / process_edit_message call
\* that completes while a confirm on the same session is in flight is still
\* held by the session after that confirm returns
C28_ConfirmClearsOwnItem == [][C28_Step]_vars

\* C29: under fair scheduling every GenerationTask confirm_generation creates
\* eventually reaches COMPLETED or FAILED, also when cancel_pending or
\* clear_session is called on its session while the job is pending or running
C29_TaskTerminates ==
    \A t \in TaskIds :
        (t \in DOMAIN tasks) ~> (t \in DOMAIN tasks /\ tasks[t].status \in Terminal)

\* C30: every image record created with status GENERATING eventually becomes
\* COMPLETED or FAILED, also when the generation returns a failure result
\* without raising
C30_ImageRecordSettles ==
    \A t \in TaskIds :
        (t \in DOMAIN image_status /\ image_status[t] = "GENERATING")
            ~> (t \in DOMAIN image_status /\ image_status[t] \in {"COMPLETED", "FAILED"})

\* handler r returns normally in this step, and the state its session object
\* then stores is the one the response reports, IDLE or AWAITING_CONFIRMATION
C31_Step ==
    \A r \in Slots :
        (/\ reqs[r].pc # "idle" /\ reqs'[r].pc = "idle"
         /\ reqs[r].op \in {"process_message", "process_edit_message",
                            "confirm_generation", "confirm_edit"}
         /\ response'.message # "HTTP 500") =>
            /\ heap'[reqs[r].obj].state = response'.state
            /\ response'.state \in {"IDLE", "AWAITING_CONFIRMATION"}

\* C31: whenever process_message, process_edit_message, confirm_generation or
\* confirm_edit returns normally, the session's stored state equals the state
\* reported in the response and is IDLE or AWAITING_CONFIRMATION
C31_StateMatchesResponse == [][C31_Step]_vars

\* no handler is running
BetweenOperations == \A r \in Slots : reqs[r].pc = "idle"

\* C32: between operations a session's state is AWAITING_CONFIRMATION if and
\* only if it holds a pending generation or a pending edit; a session in IDLE
\* holds no pending item a later confirm could still execute
C32_AwaitingIffPending ==
    BetweenOperations =>
        \A sid \in SessionIds :
            SessionExists(sid) =>
                LET s == heap[sessions[sid]]
                IN  s.state = "AWAITING_CONFIRMATION" <=>
                        (s.pending_generation # NoPending \/ s.pending_edit # NoPending)

\* C33: in every reachable state a FAILED task carries an error message and no
\* result url, a COMPLETED task carries a result url and no error, and a
\* PENDING or GENERATING task carries neither
C33_TaskFieldsMatchStatus ==
    \A t \in DOMAIN tasks :
        LET tk == tasks[t]
        IN  /\ tk.status = "FAILED" => (tk.error # NoneV /\ tk.result_url = NoneV)
            /\ tk.status = "COMPLETED" => (tk.result_url # NoneV /\ tk.error = NoneV)
            /\ tk.status \in {"PENDING", "GENERATING"} =>
                   (tk.result_url = NoneV /\ tk.error = NoneV)

\* the texts a task snapshot carries to the client
SnapshotTexts(tk) == {tk.stage, tk.prompt, tk.error, tk.result_url, tk.reference_image_url}

\* a poll of a task whose job substituted an identity image for the video and
\* has finished returns the guidance, unless the confirm response already did
C34_Step ==
    \A t \in DOMAIN tasks :
        (/\ PollStep
         /\ response'.task.task_id = t
         /\ get_task(response'.session_id, t) = t
         /\ jobs[t].pc = "done" /\ jobs[t].message = Guidance
         /\ tasks[t].status = "COMPLETED") =>
            \/ StartedMessage = Guidance
            \/ Guidance \in SnapshotTexts(response'.task)

\* C34: when an identity image is substituted for a requested video, the
\* guidance message telling the user to approve the identity image and retry
\* is delivered to the user, in the confirm response or in the polled task
\* snapshot
C34_GuidanceDelivered == [][C34_Step]_vars

\* where process_message is, right after the intent was resolved, when it has
\* gone into the branch that performs the intent ("idle": it has returned)
ActionBranch(res) ==
    CASE res.intent \in {"generate_image", "generate_video"} -> "opt"
      [] res.intent \in {"create_character", "update_character", "list_characters",
                         "fetch_instagram"} -> "skill"
      [] res.intent = "add_base_image" -> "count"
      [] OTHER -> "idle"

\* with a character selected (and the url add_base_image needs), the step that
\* answers a resolved intent enters the branch performing it, general_chat
\* returns in IDLE, and a direct action returns with the session in IDLE
C35_Step ==
    /\ \A r \in Slots, res \in IntentResults :
           (/\ PMIntent(r, res)
            /\ reqs[r].cid # NoneV
            /\ ~res.refusal
            /\ res.intent = "add_base_image" => res.has_url) =>
               /\ reqs'[r].pc = ActionBranch(res)
               /\ reqs'[r].pc = "idle" => heap'[reqs[r].obj].state = "IDLE"
    /\ \A r \in Slots :
           (reqs[r].pc \in {"skill", "count", "commit"} /\ reqs'[r].pc = "idle") =>
               heap'[reqs[r].obj].state = "IDLE"

\* C35: every intent the resolver is instructed to return is dispatched by
\* process_message to a branch that performs that action and then returns to
\* IDLE; in particular a resolved update_character executes the character
\* update
C35_EveryIntentDispatched == [][C35_Step]_vars

\* the fetched images of the session object a message is about to work on
FetchedBefore(sid) ==
    IF SessionExists(sid) THEN heap[sessions[sid]].fetched_instagram_images ELSE <<>>

\* a successful fetch stores its images; a message without a reference image
\* takes the first of them (face_swap when it names no mode) and empties the
\* list; a message with its own reference leaves the list alone; the pending
\* generation carries the reference the message ended up with; nothing else
\* touches the list
C36_Step ==
    /\ \A r \in Slots :
           (PMSkillDone(r, TRUE) /\ reqs[r].intent.intent = "fetch_instagram") =>
               heap'[reqs[r].obj].fetched_instagram_images # <<>>
    /\ \A r \in Slots, sid \in SessionIds, refin \in IgRefInputs :
           PMStart(r, sid, "c1", refin) =>
               LET o == reqs'[r].obj
                   fetched == FetchedBefore(sid)
               IN  IF refin[1] = NoneV /\ fetched # <<>>
                   THEN /\ reqs'[r].ref = fetched[1]
                        /\ reqs'[r].mode = IF refin[2] = NoneV THEN "face_swap"
                                                               ELSE refin[2]
                        /\ heap'[o].fetched_instagram_images = <<>>
                   ELSE /\ reqs'[r].ref = refin[1]
                        /\ reqs'[r].mode = refin[2]
                        /\ heap'[o].fetched_instagram_images = fetched
    /\ \A r \in Slots :
           (reqs[r].pc = "opt" /\ reqs'[r].pc = "idle") =>
               /\ heap'[reqs[r].obj].pending_generation.reference_image_path = reqs[r].ref
               /\ heap'[reqs[r].obj].pending_generation.reference_image_mode = reqs[r].mode
    /\ \A o \in DOMAIN heap :
           heap'[o].fetched_instagram_images # heap[o].fetched_instagram_images =>
               \E r \in Slots :
                   \/ reqs[r].pc = "idle" /\ reqs'[r].pc = "ctx" /\ reqs'[r].obj = o
                   \/ reqs[r].pc = "skill" /\ reqs'[r].pc = "idle" /\ reqs[r].obj = o

\* C36: after a successful fetch_instagram the fetched images are held in the
\* session and auto-applied to at most one later message: the next
\* process_message without an explicit reference image uses the first fetched
\* image as its reference (mode face_swap when no mode is given) and empties
\* the list, while a message that brings its own reference image leaves the
\* list unchanged
C36_FetchedAppliedOnce == [][C36_Step]_vars

\* a step of the generation workflow, and one of the edit workflow
GenerationSide ==
    \/ \E r \in Slots, sid \in SessionIds, refin \in CoreRefInputs :
            PMStart(r, sid, "c1", refin)
    \/ \E r \in Slots : PMContext(r)
    \/ \E r \in Slots, res \in CoreIntents : PMIntent(r, res)
    \/ \E r \in Slots : PMOptimized(r)
    \/ \E r \in Slots, sid \in SessionIds, cid \in CharacterIds \cup {NoneV},
          m \in BOOLEAN, pg \in ClientPendings \cup {NoPending} : CGStart(r, sid, cid, m, pg)
    \/ \E r \in Slots : CGFinish(r, "t1")
EditSide ==
    \/ \E r \in Slots, sid \in SessionIds : PEStart(r, sid, "c1")
    \/ \E r \in Slots : PEIntent(r)
    \/ \E r \in Slots : PEFinish(r)
    \/ \E r \in Slots, sid \in SessionIds, pe \in ClientEdits \cup {NoPending} :
            CEStart(r, sid, "c1", pe)
    \/ \E r \in Slots, ok \in BOOLEAN : CEFinish(r, ok)

\* the slot of every session object is what it was (empty in a new object)
EditSlotsKept ==
    \A o \in DOMAIN heap' :
        heap'[o].pending_edit = IF o \in DOMAIN heap THEN heap[o].pending_edit
                                                     ELSE NoPending
GenerationSlotsKept ==
    \A o \in DOMAIN heap' :
        heap'[o].pending_generation =
            IF o \in DOMAIN heap THEN heap[o].pending_generation ELSE NoPending

\* generation steps keep the edit slots, edit steps keep the generation
\* slots, and a step that changes both slots of a session is cancel_pending
C37_Step ==
    /\ GenerationSide => EditSlotsKept
    /\ EditSide => GenerationSlotsKept
    /\ (\E o \in DOMAIN heap :
            /\ heap'[o].pending_edit # heap[o].pending_edit
            /\ heap'[o].pending_generation # heap[o].pending_generation) =>
           (response'.op = "cancel" /\ reqs' = reqs /\ ncalls' = ncalls + 1)

\* C37: the two pending slots are independent: process_message and
\* confirm_generation never change the pending-edit slot, process_edit_message
\* and confirm_edit never change the pending-generation slot, a new pending
\* item replaces only the previous item of the same kind, and only
\* cancel_pending and clear_session affect both
C37_SlotsIndependent == [][C37_Step]_vars

\* what a prompt states, read off its pieces: the face comes from the identity
\* images (2-4), the composition comes from the user's image (1), and the two
\* image groups of the other modes
StatesFaceSource(prompt) ==
    \E i \in 1..Len(prompt) : prompt[i] = "Extract ONLY the facial features from images 2-4"
StatesCompositionSource(prompt) ==
    \E i \in 1..Len(prompt) : prompt[i] = FaceSwapFirst
MarksImageGroups(prompt) ==
    /\ \E i \in 1..Len(prompt) : prompt[i] = BaseThenLast
    /\ \E i \in 1..Len(prompt) :
           prompt[i] \in {LastPoseBackground, LastClothingPose, LastCustom}

\* C38: with reference mode face_swap the prompt handed to the image provider,
\* whether the creative provider wrote it or the fallback template built it,
\* states that identity comes from the identity images and pose, background
\* and clothing from the user's reference image; with any other reference
\* mode it marks the character reference and the pose/composition reference
\* as separate image groups
C38_PromptStatesContract ==
    (/\ probe.fn = "optimize" /\ probe.pc = "returned"
     /\ probe.in.has_reference_image
     /\ probe.prompt # <<>>) =>
        IF probe.in.reference_image_mode = "face_swap"
        THEN StatesFaceSource(probe.prompt) /\ StatesCompositionSource(probe.prompt)
        ELSE MarksImageGroups(probe.prompt)

\* ---- reachable cases -----------------------------------------------------

\* a provider call was made by the job of a confirmed task while a
\* process_message handler that was told needs_confirmation = FALSE waits for
\* the optimizer
W7_ConfirmedCall ==
    /\ \E e \in provider_log : e.kind \in GenerationKinds
    /\ \E r \in Slots : /\ reqs[r].op = "process_message" /\ reqs[r].pc = "opt"
                        /\ ~reqs[r].intent.needs_confirmation

\* an image task whose provider call and storage succeeded
W8_ImageCompleted ==
    \E t \in DOMAIN tasks :
        /\ jobs[t].skill = "image_generator" /\ jobs[t].pc = "done"
        /\ image_status[t] = "COMPLETED"
        /\ tasks[t].status = "COMPLETED" /\ tasks[t].progress = 100

\* a confirm_edit that waited for its provider call has returned, in a
\* session where a confirm_generation created a task
W5_BothConfirmed ==
    /\ response.op = "confirm_edit" /\ response.message = "edited"
    /\ Len(tasks) >= 1

\* a task that was issued is polled after its session was cleared
W9_PolledAfterClear ==
    /\ response.op = "get_task"
    /\ response.task.task_id >= 1
    /\ response.task.stage = "not_found"

\* a video job without base image has finished with the identity image
W10_IdentityImageInstead ==
    \E t \in DOMAIN jobs :
        /\ jobs[t].skill = "video_generator" /\ ~jobs[t].has_base_images
        /\ jobs[t].pc = "done" /\ tasks[t].status = "COMPLETED"

\* a session with a task was cancelled while it held a pending generation
\* that no confirm call had consumed
W15_CancelledWithTask ==
    /\ response.op = "cancel"
    /\ SessionExists(response.session_id)
    /\ LET s == heap[sessions[response.session_id]]
       IN  /\ s.active_tasks # {}
           /\ s.pending_generation = NoPending
           /\ s.state = "IDLE"
           /\ s.messages # <<>>
    /\ \E pid \in 1..npending : \A t \in DOMAIN tasks : tasks[t].pid # pid

\* a general_chat reply was given in a session that holds a pending
\* generation and a task
W16_ChatKeepsPending ==
    /\ response.op = "process_message" /\ response.message = "chat"
    /\ SessionExists(response.session_id)
    /\ LET s == heap[sessions[response.session_id]]
       IN  /\ s.pending_generation # NoPending
           /\ s.state = "IDLE"
           /\ s.active_tasks # {}

W19_TimedOutFinishedNoUrl ==
    /\ probe.fn = "wait_for_video" /\ probe.pc = "done"
    /\ probe.outcome = "TimeoutError"
    /\ probe.reply = "finished_no_url"
    /\ probe.polls = WaitTimeout \div PollInterval
    /\ probe.task_status = "FAILED"

W22_RefusedAfterVideo ==
    /\ probe.fn = "ledger"
    /\ probe.raised = "402"
    /\ \E k \in DOMAIN probe.added : probe.added[k].amount = 0 - 2
    /\ \E k \in DOMAIN probe.added : probe.added[k].amount > 0

\* a call without a character was refused while the session still holds the
\* pending generation of an earlier call
W24_RefusedKeepsPending ==
    /\ response.op = "process_message"
    /\ response.message = "select_character"
    /\ \E s \in SessionIds :
           /\ SessionExists(s)
           /\ heap[sessions[s]].pending_generation # NoPending
           /\ heap[sessions[s]].state \in {"PLANNING", "UNDERSTANDING"}

W36_FetchedImageUsed ==
    /\ response.op = "process_message" /\ response.message = "confirm_card"
    /\ SessionExists(response.session_id)
    /\ LET s == heap[sessions[response.session_id]]
       IN  /\ s.pending_generation # NoPending
           /\ s.pending_generation.reference_image_path = "ig1"
           /\ s.pending_generation.reference_image_mode = "face_swap"
           /\ s.fetched_instagram_images = <<>>

\* a confirmed generation has consumed its pending item and the session still
\* holds the pending edit stored before it
W37_EditSurvivesConfirm ==
    /\ response.op = "confirm_generation" /\ response.message = StartedMessage
    /\ SessionExists(response.session_id)
    /\ LET s == heap[sessions[response.session_id]]
       IN  /\ s.pending_generation = NoPending
           /\ s.pending_edit # NoPending

====
